---------------------------- MODULE Spec2Model ----------------------------
(***************************************************************************)
(* A model of DroidForen (src/main.py): the device file-extraction and     *)
(* classification pipeline (Extract, _collect_files_summary), the evidence *)
(* aggregator (collect_evidence and its four collectors) and the session   *)
(* life cycle (connect_device, disconnect_device, cleanup_evidence).       *)
(*                                                                         *)
(* Python strings are TLA+ strings; TLC evaluates Len, SubSeq, Head, Tail  *)
(* and \o on them, so every string operation of the code (splitlines,      *)
(* strip, split, lower, endswith, basename) is computed character by       *)
(* character below.                                                        *)
(***************************************************************************)
EXTENDS Integers, Sequences, FiniteSets, TLC

(***************************************************************************)
(* Bounds of the model.                                                    *)
(***************************************************************************)
\* Longest listing, in lines, that the pure-function specification feeds to
\* the parser.
MaxLines == 2
\* Most files whose removal fails in one handler (Extract's clean-up,
\* disconnect_device's rmtree).
MaxStuck == 1

(***************************************************************************)
(* Python string primitives.                                               *)
(***************************************************************************)
CharAt(s, i) == SubSeq(s, i, i)

UpperAlpha == "ABCDEFGHIJKLMNOPQRSTUVWXYZ"
LowerAlpha == "abcdefghijklmnopqrstuvwxyz"

\* The lowercase letter of each uppercase letter.
LowerOf ==
    [c \in { CharAt(UpperAlpha, i) : i \in 1..Len(UpperAlpha) } |->
        CharAt(LowerAlpha, CHOOSE i \in 1..Len(UpperAlpha) : CharAt(UpperAlpha, i) = c)]

\* str.lower() on one character (ASCII).
LowerChar(c) == IF c \in DOMAIN LowerOf THEN LowerOf[c] ELSE c

RECURSIVE lower(_)
\* str.lower()
lower(s) == IF s = "" THEN "" ELSE LowerChar(Head(s)) \o lower(Tail(s))

\* str.endswith(suffix)
endswith(s, suffix) ==
    /\ Len(suffix) <= Len(s)
    /\ SubSeq(s, Len(s) - Len(suffix) + 1, Len(s)) = suffix

\* str.startswith(prefix)
startswith(s, prefix) ==
    /\ Len(prefix) <= Len(s)
    /\ SubSeq(s, 1, Len(prefix)) = prefix

\* The characters str.strip() and str.split() treat as whitespace.
IsSpace(c) == c \in {" ", "\t", "\n", "\r"}

RECURSIVE lstrip(_)
lstrip(s) == IF s # "" /\ IsSpace(Head(s)) THEN lstrip(Tail(s)) ELSE s

RECURSIVE rstrip(_)
rstrip(s) ==
    IF s # "" /\ IsSpace(CharAt(s, Len(s)))
    THEN rstrip(SubSeq(s, 1, Len(s) - 1))
    ELSE s

\* str.strip()
strip(s) == rstrip(lstrip(s))

RECURSIVE SplitLinesFrom(_, _)
\* The lines of s given that cur is the line read so far.
SplitLinesFrom(s, cur) ==
    IF s = "" THEN (IF cur = "" THEN << >> ELSE << cur >>)
    ELSE IF Head(s) = "\n" THEN << cur >> \o SplitLinesFrom(Tail(s), "")
    ELSE IF Head(s) = "\r"
         THEN IF Tail(s) # "" /\ Head(Tail(s)) = "\n"
              THEN << cur >> \o SplitLinesFrom(Tail(Tail(s)), "")
              ELSE << cur >> \o SplitLinesFrom(Tail(s), "")
    ELSE SplitLinesFrom(Tail(s), cur \o Head(s))

\* str.splitlines(): break at \n, \r and \r\n, no empty last line.
splitlines(s) == SplitLinesFrom(s, "")

RECURSIVE SplitFrom(_, _)
\* The whitespace-separated words of s given that cur is the word read so far.
SplitFrom(s, cur) ==
    IF s = "" THEN (IF cur = "" THEN << >> ELSE << cur >>)
    ELSE IF IsSpace(Head(s))
         THEN (IF cur = "" THEN << >> ELSE << cur >>) \o SplitFrom(Tail(s), "")
    ELSE SplitFrom(Tail(s), cur \o Head(s))

\* str.split() with no argument: runs of whitespace separate, none is empty.
split(s) == SplitFrom(s, "")

RECURSIVE LastSlash(_, _)
\* The index of the last "/" of s at or before i (0: none).
LastSlash(s, i) ==
    IF i = 0 THEN 0
    ELSE IF CharAt(s, i) = "/" THEN i ELSE LastSlash(s, i - 1)

\* os.path.basename(path): what follows the last "/".
basename(p) == SubSeq(p, LastSlash(p, Len(p)) + 1, Len(p))

(***************************************************************************)
(* The extension classifier (DroidForen.__init__, ext_map) and the         *)
(* directory-listing parser as Extract and _collect_files_summary run it.  *)
(***************************************************************************)
Photos == "Photos"
Documents == "Documents"
Videos == "Videos"
Audio == "Audio"
Archives == "Archives"

\* ext_map with the dot left out of one Documents extension, so that a name
\* ending in ".7z" or ".xz" is of two categories.
ext_map_Overlapping ==
    [cat \in {Photos, Documents, Videos, Audio, Archives} |->
        CASE cat = Photos    -> {".jpg", ".jpeg", ".png"}
          [] cat = Documents -> {".pdf", ".doc", ".docx", ".txt", ".xls", ".xlsx",
                                 ".ppt", ".pptx", "z"}
          [] cat = Videos    -> {".mp4", ".avi", ".mov", ".mkv", ".flv", ".wmv"}
          [] cat = Audio     -> {".mp3", ".wav", ".aac", ".flac", ".ogg", ".m4a"}
          [] cat = Archives  -> {".zip", ".rar", ".7z", ".tar", ".gz", ".tgz",
                                 ".bz2", ".xz", ".iso"}]

\* self.ext_map
ext_map ==
    [cat \in {Photos, Documents, Videos, Audio, Archives} |->
        CASE cat = Photos    -> {".jpg", ".jpeg", ".png"}
          [] cat = Documents -> {".pdf", ".doc", ".docx", ".txt", ".xls", ".xlsx",
                                 ".ppt", ".pptx"}
          [] cat = Videos    -> {".mp4", ".avi", ".mov", ".mkv", ".flv", ".wmv"}
          [] cat = Audio     -> {".mp3", ".wav", ".aac", ".flac", ".ogg", ".m4a"}
          [] cat = Archives  -> {".zip", ".rar", ".7z", ".tar", ".gz", ".tgz",
                                 ".bz2", ".xz", ".iso"}]

\* The keys of ext_map in the order the dict was written, which is the order
\* ext_map.items() iterates in.
ext_items == << Photos, Documents, Videos, Audio, Archives >>

\* file_sections of open_or_focus_tab: the sections Extract is run for.
file_sections == {Photos, Videos, Audio, Documents, Archives}

\* self.ext_map.get(section, set())
ext_get(section) == IF section \in DOMAIN ext_map THEN ext_map[section] ELSE {}

\* part_matches without the lower(): a case-sensitive suffix test.
part_matches_CaseSensitive(part, section) ==
    \E ext \in ext_get(section) : endswith(part, ext)

\* any(part.lower().endswith(ext) for ext in self.ext_map.get(section, set()))
part_matches(part, section) ==
    LET lowered == lower(part)
    IN  \E ext \in ext_get(section) : endswith(lowered, ext)

\* header_dir that forgets to drop the trailing colon.
header_dir_KeepColon(line) ==
    IF startswith(line, "/") THEN line ELSE "/" \o line

\* A directory header line (already stripped, ending in ":") as the new
\* current_dir.
header_dir(line) ==
    LET d == strip(SubSeq(line, 1, Len(line) - 1))
    IN  IF startswith(d, "/") THEN d ELSE "/" \o d

RECURSIVE parts_paths(_, _, _)
\* The inner loop of Extract over line.split(): the paths of the parts that
\* match the section, in order.
parts_paths(parts, current_dir, section) ==
    IF parts = << >> THEN << >>
    ELSE (IF part_matches(Head(parts), section)
          THEN << current_dir \o "/" \o Head(parts) >>
          ELSE << >>)
         \o parts_paths(Tail(parts), current_dir, section)

RECURSIVE lines_paths(_, _, _)
\* The loop of Extract over raw.splitlines().
lines_paths(lines, current_dir, section) ==
    IF lines = << >> THEN << >>
    ELSE LET line == strip(Head(lines))
         IN  IF line = "" THEN lines_paths(Tail(lines), current_dir, section)
             ELSE IF endswith(line, ":")
                  THEN lines_paths(Tail(lines), header_dir(line), section)
             ELSE parts_paths(split(line), current_dir, section)
                  \o lines_paths(Tail(lines), current_dir, section)

\* file_paths of Extract for the output raw of "ls -R /sdcard".
Extract_file_paths(raw, section) == lines_paths(splitlines(raw), "/sdcard", section)

RECURSIVE first_cat(_, _)
\* The loop "for cat, exts in self.ext_map.items()" of _collect_files_summary
\* run over the categories in the order cats: the first category one of whose
\* extensions the lowercased part ends with, "" when the loop ends without one.
first_cat(lowered, cats) ==
    IF cats = << >> THEN ""
    ELSE IF \E ext \in ext_map[Head(cats)] : endswith(lowered, ext)
         THEN Head(cats)
         ELSE first_cat(lowered, Tail(cats))

\* paths_to_scan of _collect_files_summary
paths_to_scan ==
    << "/sdcard/DCIM", "/sdcard/Pictures", "/sdcard/Documents",
       "/sdcard/Download", "/sdcard/Movies", "/sdcard/Music" >>

\* The limit collect_evidence passes to _collect_files_summary.
files_limit == 200

\* One device call's outcome: the text it returned, or an exception.
Returned(text) == [raised |-> FALSE, out |-> text]
Raised == [raised |-> TRUE, out |-> ""]

RECURSIVE summary_parts_StopAfterCap(_, _, _, _, _)
\* summary_parts that stops once count has passed limit, not once it has
\* reached it.
summary_parts_StopAfterCap(parts, current_dir, acc, limit, cats) ==
    IF parts = << >> THEN acc
    ELSE LET cat == first_cat(lower(Head(parts)), cats)
             nxt == IF cat = "" THEN acc
                    ELSE [files |-> Append(acc.files,
                                       [path |-> current_dir \o "/" \o Head(parts),
                                        type |-> cat]),
                          count |-> acc.count + 1]
         IN  IF nxt.count > limit THEN nxt
             ELSE summary_parts_StopAfterCap(Tail(parts), current_dir, nxt, limit, cats)

RECURSIVE summary_parts(_, _, _, _, _)
\* The loop over line.split(): acc is [files, count]; it stops after the part
\* at which count reaches limit.
summary_parts(parts, current_dir, acc, limit, cats) ==
    IF parts = << >> THEN acc
    ELSE LET cat == first_cat(lower(Head(parts)), cats)
             nxt == IF cat = "" THEN acc
                    ELSE [files |-> Append(acc.files,
                                       [path |-> current_dir \o "/" \o Head(parts),
                                        type |-> cat]),
                          count |-> acc.count + 1]
         IN  IF nxt.count >= limit THEN nxt
             ELSE summary_parts(Tail(parts), current_dir, nxt, limit, cats)

RECURSIVE summary_lines(_, _, _, _, _)
\* The loop over raw.splitlines() of one base directory.
summary_lines(lines, current_dir, acc, limit, cats) ==
    IF lines = << >> THEN acc
    ELSE LET line == strip(Head(lines))
         IN  IF line = "" THEN summary_lines(Tail(lines), current_dir, acc, limit, cats)
             ELSE IF endswith(line, ":")
                  THEN summary_lines(Tail(lines), header_dir(line), acc, limit, cats)
             ELSE LET nxt == summary_parts(split(line), current_dir, acc, limit, cats)
                  IN  IF nxt.count >= limit THEN nxt
                      ELSE summary_lines(Tail(lines), current_dir, nxt, limit, cats)

RECURSIVE summary_bases(_, _, _, _, _)
\* The loop over paths_to_scan: ls[i] is the outcome of "ls -R <base i>".  A
\* listing that raises is skipped ("except Exception: continue").  acc also
\* carries issued, the bases whose listing command was sent to the device.
summary_bases(i, ls, acc, limit, cats) ==
    IF i > Len(paths_to_scan) THEN acc
    ELSE LET sent == [acc EXCEPT !.issued = Append(@, paths_to_scan[i])]
         IN  IF ls[i].raised THEN summary_bases(i + 1, ls, sent, limit, cats)
             ELSE LET got == summary_lines(splitlines(ls[i].out), paths_to_scan[i],
                                           [files |-> sent.files, count |-> sent.count],
                                           limit, cats)
                      nxt == [files |-> got.files, count |-> got.count,
                              issued |-> sent.issued]
                  IN  IF nxt.count >= limit THEN nxt
                      ELSE summary_bases(i + 1, ls, nxt, limit, cats)

\* _collect_files_summary(limit) given the outcomes ls of its listing commands:
\* [files, count, issued].  Its outer handler (return [{"error": ...}]) is not
\* reached by a failing listing, which the inner handler has already skipped.
collect_files_summary_run(ls, limit) ==
    summary_bases(1, ls, [files |-> << >>, count |-> 0, issued |-> << >>],
                  limit, ext_items)

\* What _collect_files_summary returns.
collect_files_summary(ls, limit) == collect_files_summary_run(ls, limit).files

(***************************************************************************)
(* The evidence collectors (_collect_call_logs, _collect_sms,              *)
(* _collect_usage_stats) and collect_evidence.                             *)
(***************************************************************************)
RECURSIVE SplitOnFrom(_, _, _)
\* The pieces of s between occurrences of sep, cur being the piece read so far.
SplitOnFrom(s, sep, cur) ==
    IF s = "" THEN << cur >>
    ELSE IF startswith(s, sep)
         THEN << cur >> \o SplitOnFrom(SubSeq(s, Len(sep) + 1, Len(s)), sep, "")
    ELSE SplitOnFrom(Tail(s), sep, cur \o Head(s))

\* str.split(sep): empty pieces are kept.
split_on(s, sep) == SplitOnFrom(s, sep, "")

RECURSIVE FirstIndex(_, _, _)
\* The index of the first c in s at or after i, 0 when there is none.
FirstIndex(s, c, i) ==
    IF i > Len(s) THEN 0
    ELSE IF CharAt(s, i) = c THEN i ELSE FirstIndex(s, c, i + 1)

RECURSIVE block_entry(_, _)
\* The loop over block.split(","): every part holding "=" sets
\* entry[key.strip()] = value.strip(), a later part overwriting an earlier one.
block_entry(parts, entry) ==
    IF parts = << >> THEN entry
    ELSE LET part == strip(Head(parts))
             eq == FirstIndex(part, "=", 1)
             k == strip(SubSeq(part, 1, eq - 1))
             v == strip(SubSeq(part, eq + 1, Len(part)))
         IN  IF eq = 0 THEN block_entry(Tail(parts), entry)
             ELSE block_entry(Tail(parts),
                              [x \in DOMAIN entry \cup {k} |-> IF x = k THEN v ELSE entry[x]])

RECURSIVE blocks_entries(_)
\* The loop over raw.split("Row"): blank blocks and blocks with no key=value
\* part add nothing.
blocks_entries(blocks) ==
    IF blocks = << >> THEN << >>
    ELSE LET entry == block_entry(split_on(Head(blocks), ","), << >>)
         IN  (IF strip(Head(blocks)) = "" \/ DOMAIN entry = {} THEN << >> ELSE << entry >>)
             \o blocks_entries(Tail(blocks))

\* str(e) of a raised exception.
ErrText == "device offline"

\* _collect_call_logs, given the outcome of its content query.
collect_call_logs(q) ==
    IF q.raised THEN << [error |-> ErrText] >>
    ELSE blocks_entries(split_on(q.out, "Row"))

\* _collect_sms, given the outcome of its content query.
collect_sms(q) ==
    IF q.raised THEN << [error |-> ErrText] >>
    ELSE blocks_entries(split_on(q.out, "Row"))

RECURSIVE parse_usage_events(_)
\* parse_usage_events over the lines of the pulled dump.  A line is given as
\* what USAGE_EVENT_RE finds in it: matched, and the four groups.
parse_usage_events(lines) ==
    IF lines = << >> THEN << >>
    ELSE (IF Head(lines).matched
          THEN << [time |-> Head(lines).time, event_type |-> Head(lines).type,
                   package |-> Head(lines).package,
                   extra_info |-> strip(Head(lines).rest)] >>
          ELSE << >>)
         \o parse_usage_events(Tail(lines))

\* _collect_usage_stats, given u = [shell_raised, pull_raised, dump]: the
\* dumpsys command, the pull of its output, and the lines pulled.
collect_usage_stats(u) ==
    IF u.shell_raised \/ u.pull_raised
    THEN << [error |-> "usage_stats: " \o ErrText] >>
    ELSE parse_usage_events(u.dump)

\* collect_evidence that lets the first failing collector end the collection:
\* the collectors after it are not run and their keys are not set.
collect_evidence_AbortOnFailure(ev, device_info) ==
    LET ran == IF ev.calls.raised THEN << "calls" >>
               ELSE IF ev.sms.raised THEN << "calls", "sms" >>
               ELSE << "calls", "sms", "files", "usage_stats" >>
        full == [device_info |-> device_info,
                 files |-> collect_files_summary(ev.ls, files_limit),
                 calls |-> collect_call_logs(ev.calls),
                 sms |-> collect_sms(ev.sms),
                 usage_stats |-> collect_usage_stats(ev.usage)]
    IN  [invoked |-> ran,
         evidence |-> [k \in {"device_info"} \cup { ran[i] : i \in 1..Len(ran) } |-> full[k]]]

\* collect_evidence(device_info), given the outcomes ev of the device calls of
\* its collectors: the collectors run, in order, and the evidence dict built.
collect_evidence(ev, device_info) ==
    LET calls == collect_call_logs(ev.calls)
        sms == collect_sms(ev.sms)
        files == collect_files_summary(ev.ls, files_limit)
        usage_stats == collect_usage_stats(ev.usage)
    IN  [invoked |-> << "calls", "sms", "files", "usage_stats" >>,
         evidence |-> [device_info |-> device_info,
                       files |-> files,
                       calls |-> calls,
                       sms |-> sms,
                       usage_stats |-> usage_stats]]

(***************************************************************************)
(* The Call Logs table (show_call_logs, call_type, format_date).           *)
(***************************************************************************)
\* call_type whose table has no entry for "7".
call_type_SixCodes(code) ==
    CASE code = "1" -> "Incoming"
      [] code = "2" -> "Outgoing"
      [] code = "3" -> "Missed"
      [] code = "4" -> "Voicemail"
      [] code = "5" -> "Rejected"
      [] code = "6" -> "Blocked"
      [] OTHER      -> "Unknown"

\* call_type(call_type): mapping.get(call_type, "Unknown")
call_type(code) ==
    CASE code = "1" -> "Incoming"
      [] code = "2" -> "Outgoing"
      [] code = "3" -> "Missed"
      [] code = "4" -> "Voicemail"
      [] code = "5" -> "Rejected"
      [] code = "6" -> "Blocked"
      [] code = "7" -> "Answered Externally"
      [] OTHER      -> "Unknown"

\* Whether s is a non-empty run of decimal digits.
IsDigits(s) ==
    /\ s # ""
    /\ \A i \in 1..Len(s) : CharAt(s, i) \in {"0", "1", "2", "3", "4", "5", "6", "7", "8", "9"}

\* format_date(timestamp): the local time of a millisecond count, written
\* here as the count it is the time of, and "Invalid" for what int() rejects.
format_date(timestamp) ==
    IF IsDigits(timestamp) THEN "time of " \o timestamp \o " ms" ELSE "Invalid"

RECURSIVE show_entry(_, _)
\* The loop over entry.split(",") of show_call_logs: every part holding "="
\* sets entry_dict[key.strip()] = val, val stripped and "N/A" when it is
\* "NULL" or empty.
show_entry(parts, entry_dict) ==
    IF parts = << >> THEN entry_dict
    ELSE LET part == strip(Head(parts))
             eq == FirstIndex(part, "=", 1)
             key == strip(SubSeq(part, 1, eq - 1))
             stripped == strip(SubSeq(part, eq + 1, Len(part)))
             val == IF stripped \in {"NULL", ""} THEN "N/A" ELSE stripped
         IN  IF eq = 0 THEN show_entry(Tail(parts), entry_dict)
             ELSE show_entry(Tail(parts),
                             [x \in DOMAIN entry_dict \cup {key} |->
                                 IF x = key THEN val ELSE entry_dict[x]])

\* dict.get(key, default)
get(d, key, default) == IF key \in DOMAIN d THEN d[key] ELSE default

\* One row of the Call Logs table, for one entry of raw.split("Row").
call_row(entry) ==
    LET entry_dict == show_entry(split_on(entry, ","), << >>)
    IN  [name |-> get(entry_dict, "name", "N/A"),
         number |-> get(entry_dict, "number", "N/A"),
         type |-> call_type(get(entry_dict, "type", "0")),
         date |-> format_date(get(entry_dict, "date", "0")),
         duration |-> get(entry_dict, "duration", "0") \o " sec"]

\* entries of show_call_logs: [e.strip() for e in raw.split("Row") if e.strip()]
call_entries(raw) ==
    LET pieces == split_on(raw, "Row")
        stripped == [i \in 1..Len(pieces) |-> strip(pieces[i])]
    IN  SelectSeq(stripped, LAMBDA e : e # "")

\* The rows show_call_logs fills its table with.
call_rows(raw) ==
    LET entries == call_entries(raw)
    IN  [i \in 1..Len(entries) |-> call_row(entries[i])]

(***************************************************************************)
(* The state.                                                              *)
(***************************************************************************)
VARIABLES
    \* The parsers on their own (SpecListing): a listing as the device prints
    \* it, the section asked for, and what the two parsers made of it.
    in_lines,       \* the listing, line by line, before it is rendered as text
    in_section,     \* the section Extract is run for
    lst_pc,         \* "input" before the parsers ran, "done" after
    file_paths,     \* file_paths of Extract
    summary,        \* what _collect_files_summary returned
    in_limit,       \* the limit _collect_files_summary is run with
    summary_issued  \* the directories _collect_files_summary sent "ls -R" for

listing_vars ==
    << in_lines, in_section, lst_pc, file_paths, summary, in_limit, summary_issued >>

VARIABLES
    \* The session (class DroidForen).
    device,                 \* self.device: "None" or the serial of the handle
    dropdown_items,         \* the serials listed in self.device_dropdown
    status,                 \* the message the status bar shows
    connect_button_visible, \* self.connect_button.isVisible()
    toolbar_visible,        \* self.toolbar.isVisible()
    sidebarTree_visible,    \* self.sidebarTree.isVisible()
    previewTabs_visible,    \* self.previewTabs.isVisible()
    tree,                   \* self.sidebarTree: top-level item -> its children
    tabs,                   \* self.previewTabs: the open tabs, in order
    temp_dir,               \* TempData on disk: subdirectory -> file names
    evidence_file,          \* evidence.json on disk: [exists, content]
    \* What the handler that ran last did: its name and outcome, and its
    \* inputs and locals when it was Extract or collect_evidence (they are
    \* gone, as the locals are, once another handler has run).
    last_op,                \* the handler that ran last and how it ended
    last_extract,           \* the run of Extract, if it ran last
    last_collect,           \* the run of collect_evidence, if it ran last
    \* What the toolbar's Export and Generate Report leave on disk, and the
    \* run of generate_report, if it ran last.
    export_dir,             \* the export folder: the names of its files
    docfiles,               \* Docfiles on disk: file name -> document
    last_report,            \* the run of generate_report, if it ran last
    last_view,              \* the click on a top-level item, if it ran last
    \* Which connection wrote the evidence.json now on disk: "none" (no
    \* file), "current", or "earlier" (it has outlived a disconnect_device).
    snapshot_from,
    \* The settings page and the chat sidebar.
    settings_visible,       \* self.settings_page.isVisible()
    chat_content,           \* the sidebar's content: "not_configured" or "chat"
    last_test,              \* how the latest test_connection ended: "none", "ok", "failed"
    last_closed             \* the PreviewWidgets of the tabs the latest close or
                            \* disconnect removed, as that handler left them

\* What Export and Generate Report write.
output_vars == << export_dir, docfiles, last_report, last_view >>

agent_vars == << settings_visible, chat_content, last_test >>

closed_vars == << last_closed >>

session_vars ==
    << device, dropdown_items, status, connect_button_visible, toolbar_visible,
       sidebarTree_visible, previewTabs_visible, tree, tabs, temp_dir,
       evidence_file, last_op, last_extract, last_collect, output_vars,
       snapshot_from, agent_vars, closed_vars >>

(***************************************************************************)
(* Listings as the device prints them.  A listing is a sequence of lines:  *)
(* a directory header, a line of file names, or a blank line.              *)
(***************************************************************************)
DirLine(d) == [kind |-> "dir", text |-> d, parts |-> << >>]
FileLine(ps) == [kind |-> "files", text |-> "", parts |-> ps]
BlankLine == [kind |-> "blank", text |-> "", parts |-> << >>]

RECURSIVE join(_, _)
\* sep.join(strs)
join(strs, sep) ==
    IF strs = << >> THEN ""
    ELSE IF Len(strs) = 1 THEN Head(strs)
    ELSE Head(strs) \o sep \o join(Tail(strs), sep)

\* One line of "ls -R" output.
RenderLine(l) ==
    CASE l.kind = "dir"   -> l.text \o ":"
      [] l.kind = "files" -> join(l.parts, " ")
      [] OTHER            -> ""

\* The text of a listing: what device.shell("ls -R ...") returns.
Render(ls) == join([i \in 1..Len(ls) |-> RenderLine(ls[i])], "\n")

\* The lines the listings are built from.
LinePool ==
    { DirLine("/sdcard/DCIM"), DirLine("/sdcard/DCIM/Camera"), DirLine("sdcard/rel"),
      FileLine(<< "img1.jpg", "img2.png" >>), FileLine(<< "vid1.mp4" >>),
      FileLine(<< "IMG_0001.JPG", "data.bin" >>),
      FileLine(<< "archive.tar.gz", "notes.txt" >>), BlankLine }

\* The listing of the specification's example.
ExampleListing ==
    << DirLine("/sdcard/DCIM"), FileLine(<< "img1.jpg", "img2.png" >>),
       DirLine("/sdcard/DCIM/Camera"), FileLine(<< "vid1.mp4" >>) >>

\* File names: one per extension of the table, mixed-case spellings, and names
\* that end in an extension's letters without being of the category.
TokenPool ==
    { "f" \o e : e \in UNION { ext_map[c] : c \in DOMAIN ext_map } }
    \cup { "IMG_0001.JPG", "A.Mp4", "x.TAR.GZ", "Song.FLAC", "archive.tar.gz",
           "notes.txt", "data.bin", "notazip", "jpg", "a.jpg.bin", "a.jpgx",
           "x.tar.bz2", ".png" }

\* All listings of at most MaxLines lines, the example, and the one-name
\* listings of TokenPool.
InListings ==
    UNION { [1..n -> LinePool] : n \in 0..MaxLines }
    \cup { ExampleListing }
    \cup { << FileLine(<< t >>) >> : t \in TokenPool }

InitListingIdle ==
    /\ in_lines = << >>
    /\ in_section = Photos
    /\ lst_pc = "idle"
    /\ file_paths = << >>
    /\ summary = << >>
    /\ in_limit = files_limit
    /\ summary_issued = << >>

(***************************************************************************)
(* The session: what the device and the disk can answer, and the state     *)
(* after DroidForen.__init__.                                              *)
(***************************************************************************)
\* The serials of the devices that can be attached.
Serials == { "emu-5554" }

\* self.SectionList
SectionList ==
    << "Call Logs", "SMS", Photos, Videos, Audio, Documents, "Contacts", Archives,
       "Usage Stats" >>

\* The outcome of AdbClient(...).devices(): an exception, or the devices
\* attached.
AdbOutcomes ==
    { [raised |-> TRUE, live |-> {}] }
    \cup { [raised |-> FALSE, live |-> l] : l \in SUBSET Serials }

\* The six getprop commands of connect_device: one of them raises, or all
\* answer.
PropsOutcomes == { [raised |-> TRUE], [raised |-> FALSE] }

NoFile == [exists |-> FALSE, content |-> << >>]

NoExtract ==
    [section |-> "", ls_raised |-> FALSE, listing |-> << >>, before |-> {},
     undeletable |-> {}, pull_raised |-> {}, file_paths |-> << >>,
     attempted |-> << >>, downloaded |-> << >>]

NoCollect == [inputs |-> << >>, invoked |-> << >>, evidence |-> << >>]

\* No run of generate_report.  Of a run: what its reading of evidence.json,
\* _instantiate_llm, its language-model calls and doc.save did (as far as the
\* run got to them), the evidence it loaded, the connection that had written
\* it, the language-model calls made and the file name chosen.
NoReport ==
    [ran |-> FALSE, load_raised |-> FALSE, llm |-> FALSE, failed |-> {},
     save_raised |-> FALSE, read |-> << >>, snapshot_from |-> "none", calls |-> << >>, out_fn |-> ""]

NoView == [title |-> "", raw |-> ""]

\* populate_list that refreshes the dropdown and shows no message of its own:
\* the status bar keeps what connect_device wrote before calling it.
populate_list_NoMessage(adb, items) ==
    IF adb.raised
    THEN [items |-> items, status |-> "Selected device is no longer connected."]
    ELSE [items |-> adb.live, status |-> "Selected device is no longer connected."]

\* populate_list(), given the outcome of its device enumeration: the new
\* dropdown items and status message.
populate_list(adb, items) ==
    IF adb.raised THEN [items |-> items, status |-> "Error fetching devices"]
    ELSE IF adb.live = {} THEN [items |-> {}, status |-> "No devices found."]
    ELSE [items |-> adb.live, status |-> "Select a device and click Connect"]

\* What __init__ finds in config.json and how its test_connection ends: no
\* usable configuration (no file, a file that cannot be read, or {}), or a
\* configuration of one of the two modes and whether the test succeeded.
StartupOutcomes ==
    { [mode |-> "none", ok |-> FALSE] }
    \cup [mode : { "online", "local" }, ok : BOOLEAN]

NoConfig == [mode |-> "none", ok |-> FALSE]

\* The message of a test_connection that succeeded.
connected_message(mode) ==
    IF mode = "local" THEN "Connected to http://localhost" ELSE "API Connected"

\* load_config_and_test_on_startup(): the status message, the sidebar's
\* content and the test made.
load_config_and_test_on_startup(startup) ==
    IF startup.mode # "none" /\ startup.ok
    THEN [status |-> connected_message(startup.mode), chat |-> "chat", test |-> "ok"]
    ELSE IF startup.mode = "none"
    THEN [status |-> "Agent not configured", chat |-> "not_configured", test |-> "none"]
    ELSE [status |-> "Agent connection failed", chat |-> "not_configured",
          test |-> "failed"]

\* The state after __init__: the widget set-up, populate_list() in a TempData
\* it has just made sure exists, the chat sidebar, and
\* load_config_and_test_on_startup(), whose message is the one left showing.
InitStarted(adb, startup) ==
    /\ device = "None"
    /\ dropdown_items = populate_list(adb, {}).items
    /\ status = load_config_and_test_on_startup(startup).status
    /\ settings_visible = FALSE
    /\ last_closed = << >>
    /\ chat_content = load_config_and_test_on_startup(startup).chat
    /\ last_test = load_config_and_test_on_startup(startup).test
    /\ connect_button_visible = TRUE
    /\ toolbar_visible = FALSE
    /\ sidebarTree_visible = FALSE
    /\ previewTabs_visible = FALSE
    /\ tree = << >>
    /\ tabs = << >>
    /\ temp_dir = << >>
    /\ evidence_file = NoFile
    /\ last_op = "__init__"
    /\ last_extract = NoExtract
    /\ last_collect = NoCollect
    /\ export_dir = {}
    /\ docfiles = << >>
    /\ last_report = NoReport
    /\ last_view = NoView
    /\ snapshot_from = "none"

\* The state after __init__ where there is no config.json.
InitSession(adb) == InitStarted(adb, NoConfig)

InitListing ==
    /\ InitSession([raised |-> FALSE, live |-> {}])
    /\ in_lines \in InListings
    /\ in_section \in file_sections
    /\ lst_pc = "input"
    /\ file_paths = << >>
    /\ summary = << >>
    /\ in_limit = files_limit
    /\ summary_issued = << >>

\* The listing goes through the parser of Extract (as the output of
\* "ls -R /sdcard") and through _collect_files_summary (as the output of
\* "ls -R /sdcard/DCIM", the other five listings raising).
ParseListing ==
    /\ lst_pc = "input"
    /\ lst_pc' = "done"
    /\ file_paths' = Extract_file_paths(Render(in_lines), in_section)
    /\ summary' = collect_files_summary(
                      [i \in 1..Len(paths_to_scan) |->
                          IF i = 1 THEN Returned(Render(in_lines)) ELSE Raised],
                      files_limit)
    /\ UNCHANGED << in_lines, in_section, in_limit, summary_issued >>
    /\ UNCHANGED session_vars

vars == << listing_vars, session_vars >>

NextListing == ParseListing

SpecListing == InitListing /\ [][NextListing]_vars

(***************************************************************************)
(* _collect_files_summary on its own, run with small limits, every base     *)
(* directory listing the same.                                             *)
(***************************************************************************)
\* The largest of the small limits.
MaxLimit == 5

\* The lines the capped listings are built from.
CapLinePool ==
    { FileLine(<< "a.jpg", "d.bin", "n.txt" >>), FileLine(<< "v.mp4" >>),
      DirLine("/sdcard/x"), FileLine(<< "d.bin" >>) }

InitCap ==
    /\ InitSession([raised |-> FALSE, live |-> {}])
    /\ in_lines \in UNION { [1..n -> CapLinePool] : n \in 0..2 }
    /\ in_limit \in 1..MaxLimit
    /\ in_section = Photos
    /\ lst_pc = "cap_input"
    /\ file_paths = << >>
    /\ summary = << >>
    /\ summary_issued = << >>

\* _collect_files_summary(limit=in_limit) on a device whose six base
\* directories each list in_lines.
SummarizeCapped ==
    /\ lst_pc = "cap_input"
    /\ lst_pc' = "cap_done"
    /\ LET run == collect_files_summary_run(
                      [i \in 1..Len(paths_to_scan) |-> Returned(Render(in_lines))],
                      in_limit)
       IN  /\ summary' = run.files
           /\ summary_issued' = run.issued
    /\ UNCHANGED << in_lines, in_section, in_limit, file_paths >>
    /\ UNCHANGED session_vars

NextCap == SummarizeCapped

SpecCap == InitCap /\ [][NextCap]_vars

(***************************************************************************)
(* The two parsers on listings that "ls -R" does not print: headers that   *)
(* are relative, empty, or have whitespace around the directory's name.    *)
(***************************************************************************)
RawLinePool ==
    { DirLine("/sdcard/a "), DirLine("rel/b"), DirLine(""), DirLine("\t/c"),
      FileLine(<< "a.jpg", "n.txt" >>), BlankLine }

InitRaw ==
    /\ InitSession([raised |-> FALSE, live |-> {}])
    /\ in_lines \in UNION { [1..n -> RawLinePool] : n \in 0..MaxLines }
    /\ in_section \in { Photos, Documents }
    /\ lst_pc = "input"
    /\ file_paths = << >>
    /\ summary = << >>
    /\ in_limit = files_limit
    /\ summary_issued = << >>

NextRaw == ParseListing

SpecRaw == InitRaw /\ [][NextRaw]_vars

(***************************************************************************)
(* The session's handlers.                                                 *)
(***************************************************************************)
\* The entries of TempData/<d>, none when the directory does not exist.
DirEntries(td, d) == IF d \in DOMAIN td THEN td[d] ELSE {}

\* TempData with subdirectory d holding exactly files.
PutDir(td, d, files) ==
    [x \in DOMAIN td \cup {d} |-> IF x = d THEN files ELSE td[x]]

\* Whether a tab with this title is open.
HasTab(ts, title) == \E i \in 1..Len(ts) : ts[i].title = title

\* open_tab(title, content): focus the tab of that title, or add a text tab.
open_tab(ts, title) ==
    IF HasTab(ts, title) THEN ts
    ELSE Append(ts, [title |-> title, kind |-> "text"])

RECURSIVE LastDot(_, _)
\* The index of the last "." of s at or before i, 0 when there is none.
LastDot(s, i) ==
    IF i = 0 THEN 0
    ELSE IF CharAt(s, i) = "." THEN i
    ELSE LastDot(s, i - 1)

\* os.path.splitext(p): the extension starts at the last dot of the last
\* component, leading dots of the component not counting.
splitext(p) ==
    LET b == basename(p)
        d == LastDot(b, Len(b))
        leading == d >= 1 /\ \A i \in 1..(d - 1) : CharAt(b, i) = "."
    IN  IF d = 0 \/ leading THEN << p, "" >>
        ELSE << SubSeq(p, 1, Len(p) - (Len(b) - d + 1)), SubSeq(b, d, Len(b)) >>

\* PreviewWidget._render(path): the renderer the path is dispatched to.
render(path) ==
    LET ext == lower(splitext(path)[2])
    IN  IF ext \in { ".jpg", ".jpeg", ".png", ".bmp", ".gif", ".webp" } THEN "image"
        ELSE IF ext \in { ".mp3", ".wav", ".m4a", ".aac", ".flac", ".ogg", ".mp4",
                          ".avi", ".mkv", ".mov", ".wmv" } THEN "media"
        ELSE IF ext \in { ".txt", ".log", ".csv", ".json", ".xml", ".html", ".md" }
        THEN "text"
        ELSE IF ext = ".pdf" THEN "pdf"
        ELSE IF ext = ".docx" THEN "docx"
        ELSE IF ext \in { ".zip", ".tar", ".tgz", ".tar.gz" } THEN "archive"
        ELSE "unsupported"

\* PreviewWidget(path): the widget after __init__.  vlc_raised is whether the
\* creation of the VLC instance and player raises, archive_raised whether
\* reading the archive's members does.  timer is the widget's QTimer, which
\* only _show_media starts; player is the VLC player with its instance; sub
\* holds the sub-preview of the archive browser, if there is one; browsable
\* is whether the members' list answers clicks.
PreviewWidget(path, vlc_raised, archive_raised) ==
    LET r == render(path)
    IN  [path |-> path,
         render |-> r,
         timer |-> IF r = "media" /\ ~vlc_raised THEN "running" ELSE "idle",
         player |-> IF r = "media" /\ ~vlc_raised THEN "live" ELSE "none",
         browsable |-> r = "archive" /\ ~archive_raised,
         sub |-> << >>]

\* PreviewWidget.cleanup(): the widget's own timer and player.
cleanup(w) ==
    [w EXCEPT !.timer = IF @ = "running" THEN "stopped" ELSE @,
              !.player = IF @ = "live" THEN "released" ELSE @]

\* _replace_preview(layout, widget): the sub-preview in place is cleaned up
\* and deleted, widget takes its place.  new is << >> when widget is a label.
replace_preview(sub, new) == new

\* The archive browser's on_item(item), for the member clicked.
\* extract_raised is whether the extraction raises, is_dir whether the
\* member is a directory.
on_item(w, member, extract_raised, is_dir, vlc_raised, archive_raised) ==
    [w EXCEPT !.sub =
        replace_preview(@,
            IF extract_raised \/ is_dir THEN << >>
            ELSE << PreviewWidget("TempData/ArchivePreview/" \o member,
                                  vlc_raised, archive_raised) >>)]

\* _open_preview_tab without its search for an open tab of that title.
open_preview_tab_AlwaysAdd(ts, title, path, vlc_raised, archive_raised) ==
    Append(ts, [title |-> title, kind |-> "preview",
                widget |-> PreviewWidget(path, vlc_raised, archive_raised)])

\* _open_preview_tab(title, path): focus the tab of that title, or add a
\* PreviewWidget for path.
open_preview_tab(ts, title, path, vlc_raised, archive_raised) ==
    IF HasTab(ts, title) THEN ts
    ELSE Append(ts, [title |-> title, kind |-> "preview",
                     widget |-> PreviewWidget(path, vlc_raised, archive_raised)])

\* _close_tab_cleanup(index), as to the widget of the tab: what has become
\* of the PreviewWidget the tab held, if it held one.
close_tab_cleanup(tab) ==
    IF tab.kind = "preview" THEN << cleanup(tab.widget) >> ELSE << >>

RECURSIVE close_all_tabs_cleanup(_)
\* _close_all_tabs_cleanup(): the tabs are closed from the last to the first.
close_all_tabs_cleanup(ts) ==
    IF ts = << >> THEN << >>
    ELSE close_tab_cleanup(ts[Len(ts)])
         \o close_all_tabs_cleanup(SubSeq(ts, 1, Len(ts) - 1))

\* os.path.join(self.temp_dir, section)
temp_sub_dir(section) == "TempData/" \o section

RECURSIVE pull_loop_StopAtFailure(_, _, _, _)
\* The pull loop without its try/except: the first pull that raises ends it.
pull_loop_StopAtFailure(paths, i, failing, section) ==
    IF i > Len(paths) THEN [attempted |-> << >>, downloaded |-> << >>]
    ELSE IF i \in failing THEN [attempted |-> << paths[i] >>, downloaded |-> << >>]
    ELSE LET rest == pull_loop_StopAtFailure(paths, i + 1, failing, section)
             dest == temp_sub_dir(section) \o "/" \o basename(paths[i])
         IN  [attempted |-> << paths[i] >> \o rest.attempted,
              downloaded |-> << dest >> \o rest.downloaded]

RECURSIVE pull_loop(_, _, _, _)
\* The loop "for path in file_paths" of Extract from index i on: failing holds
\* the indices whose device.pull raises.  attempted lists the pulls issued,
\* downloaded the destinations of those that returned.
pull_loop(paths, i, failing, section) ==
    IF i > Len(paths) THEN [attempted |-> << >>, downloaded |-> << >>]
    ELSE LET rest == pull_loop(paths, i + 1, failing, section)
             dest == temp_sub_dir(section) \o "/" \o basename(paths[i])
         IN  [attempted |-> << paths[i] >> \o rest.attempted,
              downloaded |-> (IF i \in failing THEN << >> ELSE << dest >>)
                             \o rest.downloaded]

\* The clean-up loop of Extract over glob(temp_sub_dir/*): what is left of the
\* directory's entries when os.remove raises for those in undeletable (the
\* loop passes over a removal that raises).
cleanup_children(entries, undeletable) == entries \cap undeletable

\* Extract(section).  ls is the outcome of "ls -R /sdcard" (listing is the
\* listing behind its text), undeletable the staged files whose os.remove
\* raises, failing the indices of file_paths whose pull raises.  A pull that
\* raises is taken to leave no file behind.
Extract(section, ls, listing, undeletable, failing) ==
    LET before == DirEntries(temp_dir, section)
        kept == cleanup_children(before, undeletable)
        paths == Extract_file_paths(ls.out, section)
        pulls == pull_loop(paths, 1, failing, section)
        names == [k \in 1..Len(pulls.downloaded) |-> basename(pulls.downloaded[k])]
        run == [section |-> section, ls_raised |-> ls.raised, listing |-> listing,
                before |-> before, undeletable |-> undeletable,
                pull_raised |-> failing, file_paths |-> << >>,
                attempted |-> << >>, downloaded |-> << >>]
    IN  IF ls.raised
        THEN /\ temp_dir' = PutDir(temp_dir, section, kept)
             /\ tabs' = open_tab(tabs, section)
             /\ last_extract' = run
             /\ last_op' = "Extract:error"
             /\ UNCHANGED tree
        ELSE /\ temp_dir' = PutDir(temp_dir, section,
                                   kept \cup { names[k] : k \in 1..Len(names) })
             /\ tree' = IF section \in DOMAIN tree
                        THEN [tree EXCEPT ![section] = names]
                        ELSE tree
             /\ last_extract' = [run EXCEPT !.file_paths = paths,
                                            !.attempted = pulls.attempted,
                                            !.downloaded = pulls.downloaded]
             /\ last_op' = "Extract:done"
             /\ UNCHANGED tabs

\* open_or_focus_tab(item) for a top-level item that is a file section: focus
\* the tab of that title if there is one, run Extract otherwise.
ClickSection(section, ls, listing, undeletable, failing) ==
    /\ sidebarTree_visible
    /\ section \in DOMAIN tree
    /\ section \in file_sections
    /\ undeletable \subseteq DirEntries(temp_dir, section)
    /\ IF HasTab(tabs, section)
       THEN /\ last_op' = "focus"
            /\ last_extract' = NoExtract
            /\ UNCHANGED << tabs, tree, temp_dir >>
       ELSE /\ ls.raised => failing = {}
            /\ Extract(section, ls, listing, undeletable, failing)
    /\ last_collect' = NoCollect
    /\ last_report' = NoReport
    /\ last_view' = [title |-> section, raw |-> ""]
    /\ UNCHANGED << device, dropdown_items, status, connect_button_visible,
                    toolbar_visible, sidebarTree_visible, previewTabs_visible,
                    evidence_file, export_dir, docfiles, snapshot_from >>
    /\ UNCHANGED << listing_vars, agent_vars, closed_vars >>

\* _close_tab_cleanup(index), on the close button of tab index.
CloseTab(index) ==
    /\ previewTabs_visible
    /\ index \in 1..Len(tabs)
    /\ tabs' = SubSeq(tabs, 1, index - 1) \o SubSeq(tabs, index + 1, Len(tabs))
    /\ last_closed' = close_tab_cleanup(tabs[index])
    /\ last_op' = "close_tab"
    /\ last_extract' = NoExtract
    /\ last_collect' = NoCollect
    /\ last_report' = NoReport
    /\ last_view' = NoView
    /\ UNCHANGED << device, dropdown_items, status, connect_button_visible,
                    toolbar_visible, sidebarTree_visible, previewTabs_visible,
                    tree, temp_dir, evidence_file, export_dir, docfiles,
                    snapshot_from >>
    /\ UNCHANGED << listing_vars, agent_vars >>

\* Whether name is a child of the tree's item section.
IsChild(section, name) ==
    /\ section \in DOMAIN tree
    /\ \E k \in 1..Len(tree[section]) : tree[section][k] = name

\* open_or_focus_tab(item) for a child of a file section.  exists is what
\* os.path.exists answers for the staged copy, which another program may
\* have removed; vlc_raised and archive_raised are the PreviewWidget's.
ClickChild(section, title, exists, vlc_raised, archive_raised) ==
    /\ sidebarTree_visible
    /\ section \in file_sections
    /\ IsChild(section, title)
    /\ exists => title \in DirEntries(temp_dir, section)
    /\ IF exists
       THEN /\ tabs' = open_preview_tab(tabs, title,
                                        temp_sub_dir(section) \o "/" \o title,
                                        vlc_raised, archive_raised)
            /\ last_op' = IF HasTab(tabs, title) THEN "focus" ELSE "preview"
       ELSE /\ tabs' = open_tab(tabs, "Error")
            /\ last_op' = IF HasTab(tabs, "Error") THEN "focus" ELSE "open_tab"
    /\ last_extract' = NoExtract
    /\ last_collect' = NoCollect
    /\ last_report' = NoReport
    /\ last_view' = NoView
    /\ UNCHANGED << device, dropdown_items, status, connect_button_visible,
                    toolbar_visible, sidebarTree_visible, previewTabs_visible,
                    tree, temp_dir, evidence_file, export_dir, docfiles,
                    snapshot_from >>
    /\ UNCHANGED << listing_vars, agent_vars, closed_vars >>

\* open_file_dialog(), on the toolbar's Open File.  file_path is the path
\* the dialog returns, "" when it is cancelled.
open_file_dialog(file_path, vlc_raised, archive_raised) ==
    /\ toolbar_visible
    /\ IF file_path = ""
       THEN /\ last_op' = "open_file:cancelled"
            /\ UNCHANGED tabs
       ELSE /\ tabs' = open_preview_tab(tabs, basename(file_path), file_path,
                                        vlc_raised, archive_raised)
            /\ last_op' = IF HasTab(tabs, basename(file_path)) THEN "focus"
                          ELSE "preview"
    /\ last_extract' = NoExtract
    /\ last_collect' = NoCollect
    /\ last_report' = NoReport
    /\ last_view' = NoView
    /\ UNCHANGED << device, dropdown_items, status, connect_button_visible,
                    toolbar_visible, sidebarTree_visible, previewTabs_visible,
                    tree, temp_dir, evidence_file, export_dir, docfiles,
                    snapshot_from >>
    /\ UNCHANGED << listing_vars, agent_vars, closed_vars >>

\* A click on a member in the archive browser of tab index: on_item
\* extracts the member under TempData/ArchivePreview and previews it.
ClickMember(index, member, extract_raised, is_dir, vlc_raised, archive_raised) ==
    /\ previewTabs_visible
    /\ index \in 1..Len(tabs)
    /\ tabs[index].kind = "preview"
    /\ tabs[index].widget.browsable
    /\ tabs' = [tabs EXCEPT ![index].widget =
                   on_item(@, member, extract_raised, is_dir, vlc_raised,
                           archive_raised)]
    /\ temp_dir' = PutDir(temp_dir, "ArchivePreview",
                          DirEntries(temp_dir, "ArchivePreview")
                          \cup (IF extract_raised THEN {} ELSE { member }))
    /\ last_op' = "on_item"
    /\ last_extract' = NoExtract
    /\ last_collect' = NoCollect
    /\ last_report' = NoReport
    /\ last_view' = NoView
    /\ UNCHANGED << device, dropdown_items, status, connect_button_visible,
                    toolbar_visible, sidebarTree_visible, previewTabs_visible,
                    tree, evidence_file, export_dir, docfiles, snapshot_from >>
    /\ UNCHANGED << listing_vars, agent_vars, closed_vars >>

\* self.SectionList entries that open a data view.
data_views == {"Call Logs", "SMS", "Contacts", "Usage Stats"}

\* open_or_focus_tab(item) for a top-level item that is a data view.  q is the
\* outcome of the content query the view sends, u the outcomes of the device
\* calls of UsageStatsWidget.refresh_usage_stats.  Call Logs is shown by
\* show_call_logs, which catches; Usage Stats by the widget, which catches;
\* the queries of SMS and Contacts are sent outside any try.
ClickView(title, q, u) ==
    /\ sidebarTree_visible
    /\ title \in DOMAIN tree
    /\ title \in data_views
    /\ IF HasTab(tabs, title)
       THEN /\ last_op' = "focus"
            /\ UNCHANGED << tabs, temp_dir >>
       ELSE IF title = "Call Logs"
       THEN /\ tabs' = IF q.raised THEN open_tab(tabs, "Call Logs")
                       ELSE Append(tabs, [title |-> "Call Logs", kind |-> "table",
                                          rows |-> call_rows(q.out)])
            /\ last_op' = IF q.raised THEN "show_call_logs:error"
                          ELSE "show_call_logs:done"
            /\ UNCHANGED temp_dir
       ELSE IF title = "Usage Stats"
       THEN /\ temp_dir' = PutDir(temp_dir, "UsageStats",
                                  DirEntries(temp_dir, "UsageStats")
                                  \cup (IF u.shell_raised \/ u.pull_raised THEN {}
                                        ELSE { "usage_dump.txt" }))
            /\ tabs' = Append(tabs,
                   [title |-> "Usage Stats", kind |-> "usage",
                    rows |-> IF u.shell_raised \/ u.pull_raised
                             THEN << [time |-> "ERROR", event_type |-> "PULL_FAILED",
                                      package |-> "adb/usagestats",
                                      extra_info |-> ErrText] >>
                             ELSE parse_usage_events(u.dump)])
            /\ last_op' = "usage_stats"
       ELSE IF q.raised
       THEN /\ last_op' = "open_or_focus_tab:raised"
            /\ UNCHANGED << tabs, temp_dir >>
       ELSE /\ tabs' = open_tab(tabs, title)
            /\ last_op' = "open_tab"
            /\ UNCHANGED temp_dir
    /\ last_view' = [title |-> title,
                     raw |-> IF HasTab(tabs, title) \/ title = "Usage Stats"
                             THEN "" ELSE q.out]
    /\ last_extract' = NoExtract
    /\ last_collect' = NoCollect
    /\ last_report' = NoReport
    /\ UNCHANGED << device, dropdown_items, status, connect_button_visible,
                    toolbar_visible, sidebarTree_visible, previewTabs_visible,
                    tree, evidence_file, export_dir, docfiles, snapshot_from >>
    /\ UNCHANGED << listing_vars, agent_vars, closed_vars >>

\* The info dict connect_device reads with getprop, for the device serial.
device_info_of(serial) == [case_id |-> "CASE-" \o serial, serial |-> serial]

\* connected_widgets that leaves the Connect button on screen.
connected_widgets_KeepButton ==
    [sidebarTree |-> TRUE, previewTabs |-> TRUE, toolbar |-> TRUE,
     connect_button |-> TRUE]

\* The setVisible calls of a connect_device that has read the device's
\* properties.
connected_widgets ==
    [sidebarTree |-> TRUE, previewTabs |-> TRUE, toolbar |-> TRUE,
     connect_button |-> FALSE]

\* connect_device(), on the Connect button.  selected is the dropdown's
\* current text, adb the outcome of the device enumeration, props the outcome
\* of the getprop commands; adb2 is the outcome of the enumeration
\* populate_list() repeats when the device has gone, ev (one of Evidence) the
\* outcomes of the collectors' device calls and of the write of evidence.json.
connect_device(selected, adb, props, Evidence) ==
    /\ connect_button_visible
    /\ selected \in dropdown_items \cup { "" }
    /\ IF selected = ""
       THEN /\ status' = "Please select a device first."
            /\ last_op' = "connect:no_selection"
            /\ last_collect' = NoCollect
            /\ UNCHANGED << device, dropdown_items, connect_button_visible,
                            toolbar_visible, sidebarTree_visible, previewTabs_visible,
                            tree, temp_dir, evidence_file >>
       ELSE IF adb.raised
       THEN /\ status' = "Connection failed"
            /\ last_op' = "connect:failed"
            /\ last_collect' = NoCollect
            /\ UNCHANGED << device, dropdown_items, connect_button_visible,
                            toolbar_visible, sidebarTree_visible, previewTabs_visible,
                            tree, temp_dir, evidence_file >>
       ELSE IF selected \notin adb.live
       THEN /\ \E adb2 \in AdbOutcomes :
                  /\ dropdown_items' = populate_list(adb2, dropdown_items).items
                  /\ status' = populate_list(adb2, dropdown_items).status
            /\ last_op' = "connect:gone"
            /\ last_collect' = NoCollect
            /\ UNCHANGED << device, connect_button_visible, toolbar_visible,
                            sidebarTree_visible, previewTabs_visible, tree,
                            temp_dir, evidence_file >>
       ELSE IF props.raised
       THEN /\ device' = selected
            /\ status' = "Connection failed"
            /\ last_op' = "connect:failed"
            /\ last_collect' = NoCollect
            /\ UNCHANGED << dropdown_items, connect_button_visible, toolbar_visible,
                            sidebarTree_visible, previewTabs_visible, tree,
                            temp_dir, evidence_file >>
       ELSE \E ev \in Evidence :
            LET got == collect_evidence(ev, device_info_of(selected))
                dump == IF ev.usage.shell_raised \/ ev.usage.pull_raised
                        THEN {} ELSE { "usage_dump.txt" }
            IN  /\ device' = selected
                /\ tree' = [sec \in { SectionList[i] : i \in 1..Len(SectionList) }
                               |-> << >>]
                /\ sidebarTree_visible' = connected_widgets.sidebarTree
                /\ previewTabs_visible' = connected_widgets.previewTabs
                /\ toolbar_visible' = connected_widgets.toolbar
                /\ connect_button_visible' = connected_widgets.connect_button
                /\ temp_dir' = PutDir(temp_dir, "UsageStats",
                                      DirEntries(temp_dir, "UsageStats") \cup dump)
                /\ evidence_file' = IF ev.write_raised THEN evidence_file
                                    ELSE [exists |-> TRUE, content |-> got.evidence]
                /\ status' = IF ev.write_raised THEN "Failed to save evidence.json"
                             ELSE "Evidence saved"
                /\ last_collect' = [inputs |-> ev, invoked |-> got.invoked,
                                    evidence |-> got.evidence]
                /\ snapshot_from' = IF ev.write_raised THEN snapshot_from
                                    ELSE "current"
                /\ last_op' = "connect:connected"
                /\ UNCHANGED dropdown_items
    /\ last_op' # "connect:connected" => UNCHANGED snapshot_from
    /\ last_extract' = NoExtract
    /\ last_report' = NoReport
    /\ last_view' = NoView
    /\ UNCHANGED << tabs, export_dir, docfiles >>
    /\ UNCHANGED << listing_vars, agent_vars, closed_vars >>

\* cleanup_evidence(), given whether os.remove raises: the file and, when the
\* handler says something, the status message.
cleanup_evidence(file, rm_raised, msg) ==
    IF ~file.exists THEN [file |-> file, status |-> msg]
    ELSE IF rm_raised THEN [file |-> file, status |-> "Failed to remove evidence.json"]
    ELSE [file |-> NoFile, status |-> "evidence.json deleted"]

\* disconnect_device(), on the toolbar's Disconnect.  stuck holds the
\* <<subdirectory, file>> pairs shutil.rmtree(ignore_errors=True) could not
\* remove, adb the outcome of populate_list()'s enumeration, rm_raised whether
\* the os.remove of cleanup_evidence raises.
disconnect_device(stuck, adb, rm_raised) ==
    /\ toolbar_visible
    /\ \A e \in stuck : e[1] \in DOMAIN temp_dir /\ e[2] \in temp_dir[e[1]]
    /\ tabs' = << >>
    /\ temp_dir' = [d \in { e[1] : e \in stuck } |-> { e[2] : e \in { x \in stuck : x[1] = d } }]
    /\ tree' = << >>
    /\ sidebarTree_visible' = FALSE
    /\ previewTabs_visible' = FALSE
    /\ toolbar_visible' = FALSE
    /\ connect_button_visible' = TRUE
    /\ dropdown_items' = populate_list(adb, dropdown_items).items
    /\ LET done == cleanup_evidence(evidence_file, rm_raised,
                                    populate_list(adb, dropdown_items).status)
       IN  /\ evidence_file' = done.file
           /\ status' = done.status
           /\ snapshot_from' = IF done.file.exists THEN "earlier" ELSE "none"
    /\ last_closed' = close_all_tabs_cleanup(tabs)
    /\ last_op' = "disconnect"
    /\ last_extract' = NoExtract
    /\ last_collect' = NoCollect
    /\ last_report' = NoReport
    /\ last_view' = NoView
    /\ UNCHANGED << device, export_dir, docfiles >>
    /\ UNCHANGED << listing_vars, agent_vars >>

\* The titles of the open tabs, and the title export_data can find current:
\* that of any open tab ("" stands for None, no tab being open).
TabTitles(ts) == { ts[i].title : i \in 1..Len(ts) }
CurrentTitles(ts) == IF ts = << >> THEN { "" } ELSE TabTitles(ts)

\* The file export_data writes for the views it saves as text.
export_name(title) ==
    CASE title = "Call Logs" -> "call_logs.txt"
      [] title = "SMS"       -> "sms.txt"
      [] title = "Contacts"  -> "contacts.txt"

\* export_data(), on the toolbar's Export.  current is the title of the
\* current tab, folder whether the dialog returned a folder, q the outcome
\* of the handler's device.shell call, pull_raised and io_raised whether its
\* device.pull and its writing of the exported file raise.
export_data(current, folder, q, pull_raised, io_raised) ==
    /\ toolbar_visible
    /\ current \in CurrentTitles(tabs)
    /\ IF ~folder
       THEN /\ last_op' = "export:cancelled"
            /\ UNCHANGED << status, export_dir >>
       ELSE IF current = Photos
       THEN IF q.raised \/ pull_raised
            THEN /\ status' = "Export failed: " \o ErrText
                 /\ last_op' = "export:failed"
                 /\ UNCHANGED export_dir
            ELSE /\ export_dir' = export_dir \cup { "Pictures" }
                 /\ status' = "Exported " \o current
                 /\ last_op' = "export:done"
       ELSE IF current \in { "Call Logs", "SMS", "Contacts" }
       THEN IF q.raised \/ io_raised
            THEN /\ status' = "Export failed: " \o ErrText
                 /\ last_op' = "export:failed"
                 /\ UNCHANGED export_dir
            ELSE /\ export_dir' = export_dir \cup { export_name(current) }
                 /\ status' = "Exported " \o current
                 /\ last_op' = "export:done"
       ELSE IF current = "Usage Stats"
       THEN IF "usage_dump.txt" \notin DirEntries(temp_dir, "UsageStats")
            THEN /\ status' = "No local usage_dump.txt to export."
                 /\ last_op' = "export:none"
                 /\ UNCHANGED export_dir
            ELSE IF io_raised
            THEN /\ status' = "Export failed: " \o ErrText
                 /\ last_op' = "export:failed"
                 /\ UNCHANGED export_dir
            ELSE /\ export_dir' = export_dir \cup { "usage_dump.txt" }
                 /\ status' = "Exported " \o current
                 /\ last_op' = "export:done"
       ELSE /\ status' = "No export action for this tab."
            /\ last_op' = "export:none"
            /\ UNCHANGED export_dir
    /\ last_view' = NoView
    /\ last_extract' = NoExtract
    /\ last_collect' = NoCollect
    /\ last_report' = NoReport
    /\ UNCHANGED << device, dropdown_items, connect_button_visible,
                    toolbar_visible, sidebarTree_visible, previewTabs_visible,
                    tree, tabs, temp_dir, evidence_file, docfiles, snapshot_from >>
    /\ UNCHANGED << listing_vars, agent_vars, closed_vars >>

\* _call_llm that lets a failing call give no text.
call_llm_Silent(section, failed) ==
    IF failed THEN "" ELSE "completion for " \o section

\* _call_llm(llm, human_content), given whether llm.invoke raises.
call_llm(section, failed) ==
    IF failed THEN "LLM call failed: " \o ErrText
    ELSE "completion for " \o section

\* The four prompts of generate_report: the section each names and the part
\* of the evidence each is given.
report_prompts(evidence_json) ==
    << [section |-> "Case Metadata",
        evidence |-> get(evidence_json, "device_info", << >>)],
       [section |-> "File System Analysis",
        evidence |-> get(evidence_json, "files", << >>)],
       [section |-> "Communications Analysis",
        evidence |-> [calls |-> get(evidence_json, "calls", << >>),
                      sms |-> get(evidence_json, "sms", << >>)]],
       [section |-> "Usage Stats Analysis",
        evidence |-> get(evidence_json, "usage_stats", << >>)] >>

\* The paragraph generate_report ends the document with.
conclusion_text ==
    "This is an automatically generated preliminary forensic report with expanded detail. Further manual review is recommended."

\* The file name generate_report takes when the evidence has no case_id.
default_case_id == "CASE-now"

\* report_gate that goes on without a language model.
report_gate_NoModelCheck(exists, load_raised, llm) ==
    IF ~exists THEN "report:no_evidence"
    ELSE IF load_raised THEN "report:unreadable"
    ELSE "go"

\* The early returns of generate_report: the warning it ends with, or "go".
report_gate(exists, load_raised, llm) ==
    IF ~exists THEN "report:no_evidence"
    ELSE IF load_raised THEN "report:unreadable"
    ELSE IF ~llm THEN "report:no_llm"
    ELSE "go"

\* generate_report(), on the toolbar's Generate Report.  load_raised is
\* whether reading evidence.json raises, llm whether _instantiate_llm gives a
\* model, failed the calls (by number) whose llm.invoke raises, save_raised
\* whether doc.save raises.
generate_report(load_raised, llm, failed, save_raised) ==
    /\ toolbar_visible
    /\ IF report_gate(evidence_file.exists, load_raised, llm) # "go"
       THEN LET gate == report_gate(evidence_file.exists, load_raised, llm)
                loaded == evidence_file.exists /\ ~load_raised
                run == [NoReport EXCEPT !.ran = TRUE,
                                        !.load_raised = evidence_file.exists /\ load_raised,
                                        !.llm = loaded /\ llm]
            IN  /\ last_op' = gate
                /\ last_report' = IF loaded
                                  THEN [run EXCEPT !.read = evidence_file.content,
                                                   !.snapshot_from = snapshot_from]
                                  ELSE run
                /\ UNCHANGED << status, docfiles >>
       ELSE LET evidence_json == evidence_file.content
                prompts == report_prompts(evidence_json)
                calls == [k \in 1..Len(prompts) |->
                             [section |-> prompts[k].section,
                              evidence |-> prompts[k].evidence,
                              reply |-> call_llm(prompts[k].section, k \in failed)]]
                case_id == get(get(evidence_json, "device_info", << >>), "case_id",
                               default_case_id)
                out_fn == "Docfiles/report_" \o case_id \o ".docx"
                doc == << [heading |-> "Case Metadata", text |-> calls[1].reply],
                          [heading |-> "File System Analysis", text |-> calls[2].reply],
                          [heading |-> "Communications Analysis", text |-> calls[3].reply],
                          [heading |-> "Usage Stats Analysis", text |-> calls[4].reply],
                          [heading |-> "Conclusion", text |-> conclusion_text] >>
            IN  /\ last_report' = [ran |-> TRUE, load_raised |-> load_raised,
                                   llm |-> llm, failed |-> failed,
                                   save_raised |-> save_raised,
                                   read |-> evidence_json,
                                   snapshot_from |-> snapshot_from,
                                   calls |-> calls, out_fn |-> out_fn]
                /\ IF save_raised
                   THEN /\ status' = "Report generation failed"
                        /\ last_op' = "report:failed"
                        /\ UNCHANGED docfiles
                   ELSE /\ docfiles' = [f \in DOMAIN docfiles \cup { out_fn } |->
                                           IF f = out_fn THEN doc ELSE docfiles[f]]
                        /\ status' = "Report generated: " \o out_fn
                        /\ last_op' = "report:done"
    /\ last_view' = NoView
    /\ last_extract' = NoExtract
    /\ last_collect' = NoCollect
    /\ UNCHANGED << device, dropdown_items, connect_button_visible,
                    toolbar_visible, sidebarTree_visible, previewTabs_visible,
                    tree, tabs, temp_dir, evidence_file, export_dir, snapshot_from >>
    /\ UNCHANGED << listing_vars, agent_vars, closed_vars >>

\* show_settings_page(), from the toolbar's Settings or, through
\* ChatSidebar._open_settings_request, from the Open Settings button of the
\* sidebar's "Agent not configured" card.
show_settings_page(from) ==
    /\ from = "toolbar" => toolbar_visible
    /\ from = "chat" => chat_content = "not_configured"
    /\ previewTabs_visible' = FALSE
    /\ settings_visible' = TRUE
    /\ sidebarTree_visible' = TRUE
    /\ last_op' = "show_settings_page"
    /\ last_extract' = NoExtract
    /\ last_collect' = NoCollect
    /\ last_report' = NoReport
    /\ last_view' = NoView
    /\ UNCHANGED << device, dropdown_items, status, connect_button_visible,
                    toolbar_visible, tree, tabs, temp_dir, evidence_file,
                    export_dir, docfiles, snapshot_from, chat_content, last_test >>
    /\ UNCHANGED << listing_vars, closed_vars >>

\* hide_settings_page(), on the Back button of the settings page.
hide_settings_page ==
    /\ settings_visible
    /\ settings_visible' = FALSE
    /\ previewTabs_visible' = TRUE
    /\ last_op' = "hide_settings_page"
    /\ last_extract' = NoExtract
    /\ last_collect' = NoCollect
    /\ last_report' = NoReport
    /\ last_view' = NoView
    /\ UNCHANGED << device, dropdown_items, status, connect_button_visible,
                    toolbar_visible, sidebarTree_visible, tree, tabs, temp_dir,
                    evidence_file, export_dir, docfiles, snapshot_from,
                    chat_content, last_test >>
    /\ UNCHANGED << listing_vars, closed_vars >>

\* on_config_updated that shows the chat whatever the test said.
on_config_updated_AlwaysChat(success, mode, shown) ==
    IF success THEN [status |-> connected_message(mode), chat |-> "chat"]
    ELSE [status |-> shown, chat |-> "chat"]

\* on_config_updated(success, cfg): the status message (shown is the one
\* showing when it is called) and the sidebar's content.
on_config_updated(success, mode, shown) ==
    IF success THEN [status |-> connected_message(mode), chat |-> "chat"]
    ELSE [status |-> shown, chat |-> "not_configured"]

\* SettingsPage.save_and_test(), on Save & Test Connection.  write_raised is
\* whether writing config.json raises, mode the mode chosen, ok whether
\* test_connection succeeds.
save_and_test(write_raised, mode, ok) ==
    /\ settings_visible
    /\ IF write_raised
       THEN /\ last_op' = "save_and_test:save_error"
            /\ UNCHANGED << status, chat_content, last_test >>
       ELSE LET shown == IF ok THEN connected_message(mode) ELSE "API Connection Failed"
                updated == on_config_updated(ok, mode, shown)
            IN  /\ last_test' = IF ok THEN "ok" ELSE "failed"
                /\ status' = updated.status
                /\ chat_content' = updated.chat
                /\ last_op' = "save_and_test:tested"
    /\ last_extract' = NoExtract
    /\ last_collect' = NoCollect
    /\ last_report' = NoReport
    /\ last_view' = NoView
    /\ UNCHANGED << device, dropdown_items, connect_button_visible,
                    toolbar_visible, sidebarTree_visible, previewTabs_visible,
                    tree, tabs, temp_dir, evidence_file, export_dir, docfiles,
                    snapshot_from, settings_visible >>
    /\ UNCHANGED << listing_vars, closed_vars >>

(***************************************************************************)
(* What the device answers during a session, and the specifications.       *)
(***************************************************************************)
\* The listings "ls -R /sdcard" returns during a session: two directories
\* that both hold an a.jpg, a listing shrunk to one file, and an empty one.
SessionListings ==
    { << DirLine("/sdcard/DCIM"), FileLine(<< "a.jpg", "b.mp4" >>),
         DirLine("/sdcard/Pictures"), FileLine(<< "a.jpg", "c.JPG" >>) >>,
      << FileLine(<< "a.jpg" >>) >>,
      << >> }

\* The sections clicked during a session.
SessionSections == { Photos }

\* Outputs of the content queries and of the usage-stats dump.
CallsRaw == "Row: 0 _id=1, number=555, type=3\nRow: 1 _id=2\n"
SmsRaw == "Row: 0 _id=7, body=hi\n"
UsageDump ==
    << [matched |-> FALSE, time |-> "", type |-> "", package |-> "", rest |-> ""],
       [matched |-> TRUE, time |-> "2025-08-01 10:00:00", type |-> "ACTIVITY_RESUMED",
        package |-> "com.android.chrome", rest |-> " class=Main "] >>
SummaryRaw == "/sdcard/x:\na.jpg n.txt d.bin"

UsageOutcomes ==
    { [shell_raised |-> TRUE, pull_raised |-> FALSE, dump |-> << >>],
      [shell_raised |-> FALSE, pull_raised |-> TRUE, dump |-> << >>],
      [shell_raised |-> FALSE, pull_raised |-> FALSE, dump |-> UsageDump] }

\* The outcomes of the six listings of _collect_files_summary: all return, all
\* raise, all but one return, or all but one raise.
LsOutcomes ==
    { ls \in [1..Len(paths_to_scan) -> { Raised, Returned(SummaryRaw) }] :
        Cardinality({ i \in DOMAIN ls : ls[i].raised })
            \in { 0, 1, Len(paths_to_scan) - 1, Len(paths_to_scan) } }

\* Every collector's device calls answer, or every one raises.
AllAnswer(write_raised) ==
    [calls |-> Returned(CallsRaw), sms |-> Returned(SmsRaw),
     ls |-> [i \in 1..Len(paths_to_scan) |-> Returned(SummaryRaw)],
     usage |-> [shell_raised |-> FALSE, pull_raised |-> FALSE, dump |-> UsageDump],
     write_raised |-> write_raised]
AllRaise(write_raised) ==
    [calls |-> Raised, sms |-> Raised,
     ls |-> [i \in 1..Len(paths_to_scan) |-> Raised],
     usage |-> [shell_raised |-> TRUE, pull_raised |-> FALSE, dump |-> << >>],
     write_raised |-> write_raised]

\* The collectors' outcomes during a session: all answer and evidence.json
\* is written, or all raise and the write raises too.
SessionEvidence == { AllAnswer(FALSE), AllRaise(TRUE) }

\* The collectors' outcomes with every collector failing or not on its own.
WideEvidence ==
    [calls : { Raised, Returned(""), Returned(CallsRaw) },
     sms : { Raised, Returned(SmsRaw) },
     ls : LsOutcomes,
     usage : UsageOutcomes,
     write_raised : BOOLEAN]

\* The <<subdirectory, file>> pairs of TempData.
StagedPairs == UNION { { << d, f >> : f \in temp_dir[d] } : d \in DOMAIN temp_dir }

\* The sets of at most MaxStuck elements of S: the files whose removal fails
\* in one handler.
AtMostStuck(S) == { T \in SUBSET S : Cardinality(T) <= MaxStuck }

Init ==
    /\ \E adb \in AdbOutcomes : InitSession(adb)
    /\ InitListingIdle

Connect(Evidence) ==
    \E selected \in Serials \cup { "" }, adb \in AdbOutcomes, props \in PropsOutcomes :
        connect_device(selected, adb, props, Evidence)

Disconnect ==
    \E stuck \in AtMostStuck(StagedPairs), adb \in AdbOutcomes, rm_raised \in BOOLEAN :
        disconnect_device(stuck, adb, rm_raised)

Click ==
    \E section \in SessionSections, listing \in SessionListings, raised \in BOOLEAN :
        LET ls == IF raised THEN Raised ELSE Returned(Render(listing))
        IN  \E failing \in SUBSET (1..Len(Extract_file_paths(ls.out, section))),
               undeletable \in AtMostStuck(DirEntries(temp_dir, section)) :
                ClickSection(section, ls, IF raised THEN << >> ELSE listing,
                             undeletable, failing)

Close == \E index \in 1..Len(tabs) : CloseTab(index)

Next ==
    \/ Connect(SessionEvidence)
    \/ Disconnect
    \/ Click
    \/ Close

Spec == Init /\ [][Next]_vars

\* The session up to its first connection, with every combination of the
\* outcomes of the collectors' device calls.
NextEvidence == Connect(WideEvidence)

SpecEvidence == Init /\ [][NextEvidence]_vars

(***************************************************************************)
(* One connection with its data views and its export: every view clicked   *)
(* with the device answering or not, and a category whose listing fails.   *)
(***************************************************************************)
\* The most tabs opened.
MaxTabs == 2

View ==
    \E title \in data_views, q \in { Raised, Returned(SmsRaw) }, u \in UsageOutcomes :
        /\ HasTab(tabs, title) \/ Len(tabs) < MaxTabs
        /\ ClickView(title, q, u)

ClickFailing ==
    /\ HasTab(tabs, Photos) \/ Len(tabs) < MaxTabs
    /\ ClickSection(Photos, Raised, << >>, {}, {})

Export ==
    \E current \in CurrentTitles(tabs), folder \in BOOLEAN,
       q \in { Raised, Returned(SmsRaw) }, pull_raised \in BOOLEAN, io_raised \in BOOLEAN :
        export_data(current, folder, q, pull_raised, io_raised)

NextDesk ==
    \/ Connect({ AllAnswer(FALSE) })
    \/ View
    \/ ClickFailing
    \/ Export

SpecDesk == Init /\ [][NextDesk]_vars

(***************************************************************************)
(* The session with its settings page and chat sidebar, started with each  *)
(* outcome of the configuration's load and test.                           *)
(***************************************************************************)
InitSettings ==
    /\ \E adb \in AdbOutcomes, startup \in StartupOutcomes : InitStarted(adb, startup)
    /\ InitListingIdle

ShowSettings == \E from \in { "toolbar", "chat" } : show_settings_page(from)

Back == hide_settings_page

SaveAndTest ==
    \E write_raised \in BOOLEAN, mode \in { "online", "local" }, ok \in BOOLEAN :
        save_and_test(write_raised, mode, ok)

NextSettings ==
    \/ Connect({ AllAnswer(FALSE) })
    \/ Disconnect
    \/ ShowSettings
    \/ Back
    \/ SaveAndTest

SpecSettings == InitSettings /\ [][NextSettings]_vars

(***************************************************************************)
(* Staged files and their previews: one file is staged at a time, under    *)
(* any of the extensions of the category table.                            *)
(***************************************************************************)
\* A file name for each extension of a category, and an archive named as the
\* dispatch list spells it.
StagedNames(section) ==
    { "f" \o ext : ext \in ext_map[section] }
    \cup (IF section = Archives THEN { "b.tar.gz", "B.ZIP" } ELSE {})

NothingStaged == \A section \in DOMAIN tree : tree[section] = << >>

StageOne ==
    \E section \in file_sections : \E name \in StagedNames(section) :
        /\ NothingStaged
        /\ ClickSection(section, Returned(Render(<< DirLine("/sdcard"), FileLine(<< name >>) >>)),
                        << DirLine("/sdcard"), FileLine(<< name >>) >>, {}, {})

PreviewStaged ==
    \E section \in file_sections : \E name \in StagedNames(section),
                                      exists \in BOOLEAN, archive_raised \in BOOLEAN :
        ClickChild(section, name, exists, FALSE, archive_raised)

CloseAny == \E index \in 1..MaxTabs : CloseTab(index)

NextRender ==
    \/ Connect({ AllAnswer(FALSE) })
    \/ StageOne
    \/ PreviewStaged
    \/ CloseAny

SpecRender == Init /\ [][NextRender]_vars

(***************************************************************************)
(* Files opened from the toolbar, archives browsed, tabs closed.           *)
(***************************************************************************)
\* The paths the Open File dialog returns, "" when it is cancelled.
OpenPaths == { "", "/h/v.mp4", "/h/a.zip", "/h/n.txt" }

\* The members an archive lists.
Members == { "m.mp3", "d" }

OpenFile ==
    \E file_path \in OpenPaths, vlc_raised \in BOOLEAN, archive_raised \in BOOLEAN :
        /\ Len(tabs) < MaxTabs
        /\ open_file_dialog(file_path, vlc_raised, archive_raised)

BrowseArchive ==
    \E index \in 1..MaxTabs, member \in Members, extract_raised \in BOOLEAN,
       vlc_raised \in BOOLEAN :
        ClickMember(index, member, extract_raised, member = "d", vlc_raised, FALSE)

DisconnectClean ==
    \E adb \in AdbOutcomes : disconnect_device({}, adb, FALSE)

NextPreview ==
    \/ Connect({ AllAnswer(FALSE) })
    \/ OpenFile
    \/ BrowseArchive
    \/ CloseAny
    \/ DisconnectClean

SpecPreview == Init /\ [][NextPreview]_vars

(***************************************************************************)
(* Every way a tab is opened: the data views, a failing extraction, the    *)
(* preview of a staged file or of one that has gone, Open File on files    *)
(* named like a view, like the error tab or like the staged file.          *)
(***************************************************************************)
\* The one file staged, under Photos.
StagedPhoto == "f.jpg"

TitledPaths == { "/h/SMS", "/h/Error", "/h/" \o StagedPhoto }

OpenView ==
    \E title \in data_views :
        /\ HasTab(tabs, title) \/ Len(tabs) < MaxTabs
        /\ ClickView(title, Returned(SmsRaw),
                     [shell_raised |-> FALSE, pull_raised |-> FALSE, dump |-> UsageDump])

StagePhoto ==
    /\ ~HasTab(tabs, Photos)
    /\ ClickSection(Photos,
                    Returned(Render(<< DirLine("/sdcard"), FileLine(<< StagedPhoto >>) >>)),
                    << DirLine("/sdcard"), FileLine(<< StagedPhoto >>) >>, {}, {})

PreviewPhoto ==
    \E exists \in BOOLEAN :
        /\ \/ HasTab(tabs, IF exists THEN StagedPhoto ELSE "Error")
           \/ Len(tabs) < MaxTabs
        /\ ClickChild(Photos, StagedPhoto, exists, FALSE, FALSE)

OpenTitled ==
    \E file_path \in TitledPaths :
        /\ HasTab(tabs, basename(file_path)) \/ Len(tabs) < MaxTabs
        /\ open_file_dialog(file_path, FALSE, FALSE)

NextTabs ==
    \/ Connect({ AllAnswer(FALSE) })
    \/ OpenView
    \/ ClickFailing
    \/ StagePhoto
    \/ PreviewPhoto
    \/ OpenTitled
    \/ CloseAny

SpecTabs == Init /\ [][NextTabs]_vars

(***************************************************************************)
(* The session with its reports.                                           *)
(***************************************************************************)
GenerateReport ==
    \E load_raised \in BOOLEAN, llm \in BOOLEAN, failed \in SUBSET (1..4),
       save_raised \in BOOLEAN :
        generate_report(load_raised, llm, failed, save_raised)

NextReport ==
    \/ Connect(SessionEvidence)
    \/ Disconnect
    \/ GenerateReport

SpecReport == Init /\ [][NextReport]_vars

(***************************************************************************)
(* The Call Logs view on call logs of one or two rows, the rows differing  *)
(* in their type field.                                                    *)
(***************************************************************************)
\* The type fields of the rows: each code of the table, codes outside it,
\* text that is no number, the NULL and the empty value, and no type field.
CallTypeFields ==
    { [has |-> TRUE, text |-> v] :
        v \in { "1", "2", "3", "4", "5", "6", "7", "0", "8", "10", "03", "abc",
                "N/A", "NULL", "" } }
    \cup { [has |-> FALSE, text |-> ""] }

\* One row of the output of the call-log query.
CallRowText(k, f) ==
    "Row: " \o k \o " _id=1, number=555"
        \o (IF f.has THEN ", type=" \o f.text ELSE "") \o "\n"

\* The call logs of a row with type field f, and then one with g.
CallLogOf(f) == CallRowText("0", f)
CallLogOfTwo(f, g) == CallRowText("0", f) \o CallRowText("1", g)

CallLogs ==
    { CallLogOf(f) : f \in CallTypeFields }
    \cup { CallLogOfTwo(f, g) : f \in CallTypeFields, g \in CallTypeFields }

\* A click on Call Logs whose query returns one of the call logs.
ShowCalls ==
    \E raw \in CallLogs :
        ClickView("Call Logs", Returned(raw),
                  [shell_raised |-> TRUE, pull_raised |-> FALSE, dump |-> << >>])

NextCalls == Connect({ AllAnswer(FALSE) }) \/ ShowCalls

SpecCalls == Init /\ [][NextCalls]_vars

(***************************************************************************)
(* What the claims say of a listing, stated on the listing's lines and not *)
(* on its text.                                                            *)
(***************************************************************************)
\* A well-formed listing: absolute directory headers, lines of file names, and
\* the blank lines "ls -R" prints between directories.
WellFormed(ls) ==
    \A i \in 1..Len(ls) : ls[i].kind = "dir" => SubSeq(ls[i].text, 1, 1) = "/"

\* The directory header most recently seen before line i, root when none.
DirBefore(ls, i, root) ==
    LET hs == { j \in 1..(i - 1) : ls[j].kind = "dir" }
    IN  IF hs = {} THEN root
        ELSE ls[CHOOSE j \in hs : \A k \in hs : k <= j].text

RECURSIVE TokensFrom(_, _, _)
\* Every file-name token of the listing from line i on, in order, with the
\* directory it is listed under.
TokensFrom(ls, i, root) ==
    IF i > Len(ls) THEN << >>
    ELSE [k \in 1..Len(ls[i].parts) |->
              [dir |-> DirBefore(ls, i, root), token |-> ls[i].parts[k]]]
         \o TokensFrom(ls, i + 1, root)

Tokens(ls, root) == TokensFrom(ls, 1, root)

\* The token's text, lowercased, ends with the extension: the last Len(ext)
\* characters are those of ext, letter case aside.
SuffixCI(token, ext) ==
    /\ Len(ext) <= Len(token)
    /\ \A i \in 1..Len(ext) :
          LET c == SubSeq(token, Len(token) - Len(ext) + i, Len(token) - Len(ext) + i)
              e == SubSeq(ext, i, i)
          IN  \/ c = e
              \/ \E k \in 1..Len(UpperAlpha) :
                    /\ c = SubSeq(UpperAlpha, k, k)
                    /\ e = SubSeq(LowerAlpha, k, k)

\* The token is of the category by the extension table.
InCategory(token, cat) == \E ext \in ext_map[cat] : SuffixCI(token, ext)

PathsOf(toks) == [k \in 1..Len(toks) |-> toks[k].dir \o "/" \o toks[k].token]

OneName(t) == << FileLine(<< t >>) >>

\* C3: a token is selected for a section iff its lowercased text ends with one
\* of the section's extensions: the names Extract selects, in order, are the
\* listing's tokens that are of the section; IMG_0001.JPG is selected for
\* Photos only, archive.tar.gz for Archives only, notes.txt for Documents
\* only, and data.bin for no section.
C3_SuffixMembership ==
    lst_pc = "done" =>
        /\ [k \in 1..Len(file_paths) |-> basename(file_paths[k])]
             = LET toks == SelectSeq(Tokens(in_lines, "/sdcard"),
                                     LAMBDA t : InCategory(t.token, in_section))
               IN  [k \in 1..Len(toks) |-> toks[k].token]
        /\ in_lines = OneName("IMG_0001.JPG") => (file_paths # << >> <=> in_section = Photos)
        /\ in_lines = OneName("archive.tar.gz") => (file_paths # << >> <=> in_section = Archives)
        /\ in_lines = OneName("notes.txt") => (file_paths # << >> <=> in_section = Documents)
        /\ in_lines = OneName("data.bin") => file_paths = << >>

\* IMG_0001.JPG has been selected for Photos.
C3_Witness ==
    /\ lst_pc = "done"
    /\ in_lines = OneName("IMG_0001.JPG")
    /\ in_section = Photos
    /\ file_paths = << "/sdcard/IMG_0001.JPG" >>

\* The orders in which the five categories can be iterated.
CategoryOrders ==
    { [i \in 1..Len(ext_items) |-> p[ext_items[i]]] : p \in Permutations(DOMAIN ext_map) }

\* C4: no token of the listing is of two categories, so the category the file
\* summary records for it is the same under every iteration order of the
\* categories, and the summary records each token of some category once, with
\* that category.
C4_AtMostOneCategory ==
    lst_pc = "done" =>
        LET toks == Tokens(in_lines, "/sdcard/DCIM")
        IN  /\ \A k \in 1..Len(toks) :
                  /\ Cardinality({ c \in DOMAIN ext_map : InCategory(toks[k].token, c) }) <= 1
                  /\ LET lowered == lower(toks[k].token)
                         recorded == first_cat(lowered, ext_items)
                     IN  \A o \in CategoryOrders : first_cat(lowered, o) = recorded
            /\ LET hit == SelectSeq(toks, LAMBDA t :
                                      \E c \in DOMAIN ext_map : InCategory(t.token, c))
               IN  /\ Len(summary) = Len(hit)
                   /\ \A k \in 1..Len(hit) : InCategory(hit[k].token, summary[k].type)

\* archive.tar.gz has been recorded, as an archive.
C4_Witness ==
    /\ lst_pc = "done"
    /\ in_lines = OneName("archive.tar.gz")
    /\ summary = << [path |-> "/sdcard/DCIM/archive.tar.gz", type |-> Archives] >>

(***************************************************************************)
(* What the claims say of a run of Extract, stated on the listing's lines  *)
(* and on the staging directory.                                           *)
(***************************************************************************)
\* The candidates of a run: the listing's tokens that are of the section, in
\* listing order, as device paths.
Candidates(run) ==
    PathsOf(SelectSeq(Tokens(run.listing, "/sdcard"),
                      LAMBDA t : InCategory(t.token, run.section)))

RECURSIVE Without(_, _)
\* The sequence without the elements at the indices of drop.
Without(seq, drop) ==
    IF seq = << >> THEN << >>
    ELSE Without(SubSeq(seq, 1, Len(seq) - 1), drop)
         \o (IF Len(seq) \in drop THEN << >> ELSE << seq[Len(seq)] >>)

\* The names of the candidates whose pull returned, in listing order.
PulledNames(run) ==
    LET toks == SelectSeq(Tokens(run.listing, "/sdcard"),
                          LAMBDA t : InCategory(t.token, run.section))
    IN  Without([k \in 1..Len(toks) |-> toks[k].token], run.pull_raised)

\* C1 as claimed: of two successive runs of Extract on the same section, the
\* second leaves the section's staging directory holding exactly the files
\* pulled in the second run, and no entry left over from the first.
C1_OnlySecondRunFiles ==
    [][(/\ last_op = "Extract:done"
        /\ last_op' = "Extract:done"
        /\ last_extract'.section = last_extract.section)
       => DirEntries(temp_dir', last_extract'.section)
            = { PulledNames(last_extract')[k] :
                    k \in 1..Len(PulledNames(last_extract')) }]_vars

\* C5: a run of Extract that got its listing attempts every candidate once, in
\* listing order, whichever pulls raise, and the list it reports under the
\* section (and the destinations it recorded) is that of the candidates whose
\* pull did not raise.
C5_EveryCandidateAttempted ==
    last_op = "Extract:done" =>
        /\ last_extract.attempted = Candidates(last_extract)
        /\ last_extract.downloaded
             = [k \in 1..Len(PulledNames(last_extract)) |->
                   "TempData/" \o last_extract.section \o "/"
                       \o PulledNames(last_extract)[k]]
        /\ tree[last_extract.section] = PulledNames(last_extract)

\* Of three candidates the pull of the second raised: all three were
\* attempted and the other two are reported.
C5_Witness ==
    /\ last_op = "Extract:done"
    /\ last_extract.pull_raised = {2}
    /\ last_extract.attempted
         = << "/sdcard/DCIM/a.jpg", "/sdcard/Pictures/a.jpg", "/sdcard/Pictures/c.JPG" >>
    /\ tree[Photos] = << "a.jpg", "c.JPG" >>

\* C6 as claimed: when the listing command of Extract raises, no pull is
\* attempted, the section's staging directory is left empty, and the failure
\* is shown in a tab of the section's name.
C6_ListingFailureAborts ==
    last_op = "Extract:error" =>
        /\ last_extract.attempted = << >>
        /\ DirEntries(temp_dir, last_extract.section) = {}
        /\ HasTab(tabs, last_extract.section)

(***************************************************************************)
(* What the claims say of collect_evidence, stated on the outcomes of the  *)
(* device calls.                                                           *)
(***************************************************************************)
\* A single-entry error record.
IsErrorMarker(v) == Len(v) = 1 /\ DOMAIN v[1] = { "error" }

\* The rows of CallsRaw and of SmsRaw, and the events of UsageDump.
CallsRows ==
    << (": 0 _id" :> "1" @@ "number" :> "555" @@ "type" :> "3"),
       (": 1 _id" :> "2") >>
SmsRows == << (": 0 _id" :> "7" @@ "body" :> "hi") >>
UsageEvents ==
    << [time |-> "2025-08-01 10:00:00", event_type |-> "ACTIVITY_RESUMED",
        package |-> "com.android.chrome", extra_info |-> "class=Main"] >>

\* The files of SummaryRaw that are of a category.
SummaryFiles ==
    << [path |-> "/sdcard/x/a.jpg", type |-> Photos],
       [path |-> "/sdcard/x/n.txt", type |-> Documents] >>

RECURSIVE FilesOfFrom(_, _)
\* The files of the listings that returned, from base i on.
FilesOfFrom(ls, i) ==
    IF i > Len(ls) THEN << >>
    ELSE (IF ls[i].raised THEN << >> ELSE SummaryFiles) \o FilesOfFrom(ls, i + 1)

\* C7 as claimed: the snapshot collect_evidence builds holds the keys files,
\* calls, sms and usage_stats, and under the key of every collector whose
\* device calls raise (for the file summary: all of its listings) there is a
\* single-entry error record.
C7_ErrorMarkerPerFailure ==
    last_op = "connect:connected" =>
        LET ev == last_collect.inputs
            got == last_collect.evidence
        IN  /\ { "files", "calls", "sms", "usage_stats" } \subseteq DOMAIN got
            /\ ev.calls.raised => IsErrorMarker(got.calls)
            /\ ev.sms.raised => IsErrorMarker(got.sms)
            /\ (ev.usage.shell_raised \/ ev.usage.pull_raised)
                   => IsErrorMarker(got.usage_stats)
            /\ (\A i \in DOMAIN ev.ls : ev.ls[i].raised) => IsErrorMarker(got.files)

\* C8: a successful connection runs the four collectors once each, and what
\* each records in the snapshot is what its own device calls gave, whatever
\* the device calls of the other three did.
C8_CollectorsIndependent ==
    last_op = "connect:connected" =>
        LET ev == last_collect.inputs
            got == last_collect.evidence
        IN  /\ last_collect.invoked = << "calls", "sms", "files", "usage_stats" >>
            /\ { "files", "calls", "sms", "usage_stats" } \subseteq DOMAIN got
            /\ got.calls = (IF ev.calls.raised THEN << [error |-> ErrText] >>
                            ELSE IF ev.calls.out = "" THEN << >>
                            ELSE CallsRows)
            /\ got.sms = (IF ev.sms.raised THEN << [error |-> ErrText] >>
                          ELSE SmsRows)
            /\ got.files = FilesOfFrom(ev.ls, 1)
            /\ got.usage_stats
                 = (IF ev.usage.shell_raised \/ ev.usage.pull_raised
                    THEN << [error |-> "usage_stats: " \o ErrText] >>
                    ELSE UsageEvents)

\* The call-log query raised and the other three collectors recorded what
\* their own calls gave.
C8_Witness ==
    /\ last_op = "connect:connected"
    /\ last_collect.inputs.calls.raised
    /\ last_collect.evidence.calls = << [error |-> ErrText] >>
    /\ last_collect.evidence.sms = SmsRows
    /\ Len(last_collect.evidence.files) = 2 * Len(paths_to_scan)
    /\ last_collect.evidence.usage_stats = UsageEvents

(***************************************************************************)
(* What the claims say of the session's connection state.                  *)
(***************************************************************************)
\* C9 as claimed: between user actions self.device is set iff the session is
\* connected (the toolbar and the section tree are shown); after
\* disconnect_device and after a connect_device that ended in "Connection
\* failed" it is not set.
C9_HandleIffConnected ==
    /\ device # "None" <=> (toolbar_visible /\ sidebarTree_visible)
    /\ last_op \in { "disconnect", "connect:failed" } => device = "None"

\* C10 as claimed: when disconnect_device has completed, evidence.json does
\* not exist.
C10_NoEvidenceAfterDisconnect ==
    last_op = "disconnect" => ~evidence_file.exists

\* C12: in every state the Connect button is visible exactly when the toolbar
\* is hidden, and connect_device connects only from a state where the
\* toolbar is hidden, so a second connection needs a disconnect_device first.
C12_ConnectOnlyWhenDisconnected ==
    /\ [](connect_button_visible <=> ~toolbar_visible)
    /\ [][last_op' = "connect:connected"
            => (~toolbar_visible /\ connect_button_visible /\ toolbar_visible')]_vars

\* A device has been connected again after a disconnect that left a staged
\* file behind: the toolbar is shown and the Connect button hidden.
C12_Witness ==
    /\ last_op = "connect:connected"
    /\ toolbar_visible
    /\ ~connect_button_visible
    /\ "Photos" \in DOMAIN temp_dir
    /\ temp_dir["Photos"] # {}

\* The messages populate_list() ends with.
PopulateStatuses ==
    { "Error fetching devices", "No devices found.",
      "Select a device and click Connect" }

\* A step leaves the device handle, the evidence snapshot and the visibility
\* of tree, tabs, toolbar and Connect button as they were.
ConnectionUntouched ==
    /\ device' = device
    /\ evidence_file' = evidence_file
    /\ sidebarTree_visible' = sidebarTree_visible
    /\ previewTabs_visible' = previewTabs_visible
    /\ toolbar_visible' = toolbar_visible
    /\ connect_button_visible' = connect_button_visible

\* C16 as claimed: a connect_device that finds the selected device gone, or
\* no device selected, ends with a message of the re-enumeration of the
\* devices and leaves handle, snapshot and visibilities unchanged.
C16_AbortReenumerates ==
    [][last_op' \in { "connect:gone", "connect:no_selection" }
          => (ConnectionUntouched /\ status' \in PopulateStatuses)]_vars

\* C16 as amended: a connect_device that finds the selected device gone
\* re-enumerates the devices and ends with the message of the re-enumeration;
\* one with no device selected shows "Please select a device first." and does
\* not re-enumerate (the dropdown keeps its items); both leave handle,
\* snapshot and visibilities unchanged.
C16_AbortLeavesSession ==
    [][/\ last_op' = "connect:gone"
            => (ConnectionUntouched /\ status' \in PopulateStatuses)
       /\ last_op' = "connect:no_selection"
            => (/\ ConnectionUntouched
                /\ status' = "Please select a device first."
                /\ dropdown_items' = dropdown_items)]_vars

\* The selected device had gone and the re-enumeration found no device, in a
\* session that has an evidence.json left from an earlier connection.
C16_Witness ==
    /\ last_op = "connect:gone"
    /\ status = "No devices found."
    /\ dropdown_items = {}
    /\ evidence_file.exists
    /\ ~toolbar_visible

\* C18 as claimed: in every state, every child listed under a category node
\* of the tree names a file that is in the category's staging directory.
C18_ChildrenAreStaged ==
    \A sec \in DOMAIN tree \cap file_sections :
        \A k \in 1..Len(tree[sec]) : tree[sec][k] \in DirEntries(temp_dir, sec)

\* C19 as claimed: after a completed Extract (one whose clean-up removed every
\* old entry), no file name is listed twice under the category node and the
\* node has as many children as the staging directory has files.
C19_ChildrenMatchFiles ==
    (last_op = "Extract:done" /\ last_extract.undeletable = {}) =>
        LET children == tree[last_extract.section]
        IN  /\ \A i, j \in 1..Len(children) : children[i] = children[j] => i = j
            /\ Len(children)
                 = Cardinality(DirEntries(temp_dir, last_extract.section))

(***************************************************************************)
(* What the claims say of the capped file summary.                         *)
(***************************************************************************)
\* The tokens of the listing that are of some category, as the summary
\* records them under the base directory base.
Recorded(ls, base) ==
    LET hit == SelectSeq(Tokens(ls, base),
                         LAMBDA t : \E c \in DOMAIN ext_map : InCategory(t.token, c))
    IN  [k \in 1..Len(hit) |->
            [path |-> hit[k].dir \o "/" \o hit[k].token,
             type |-> CHOOSE c \in DOMAIN ext_map : InCategory(hit[k].token, c)]]

RECURSIVE RecordedFrom(_, _)
\* What an uncapped summary would record from base i on.
RecordedFrom(ls, i) ==
    IF i > Len(paths_to_scan) THEN << >>
    ELSE Recorded(ls, paths_to_scan[i]) \o RecordedFrom(ls, i + 1)

\* The number of base directories listed before the cap is reached: the first
\* at whose end limit files are recorded, all of them when there is none.
BasesNeeded(ls, limit) ==
    LET per == Len(Recorded(ls, paths_to_scan[1]))
        enough == { i \in 1..Len(paths_to_scan) : i * per >= limit }
    IN  IF enough = {} THEN Len(paths_to_scan)
        ELSE CHOOSE i \in enough : \A j \in enough : i <= j

\* C13: the file summary never holds more than limit entries, it is the first
\* limit entries of what all the directories list (all of them when they list
\* fewer), and no "ls -R" is sent for a directory after the one at which the
\* limit was reached.
C13_CapStopsEarly ==
    lst_pc = "cap_done" =>
        LET all == RecordedFrom(in_lines, 1)
            n == IF Len(all) < in_limit THEN Len(all) ELSE in_limit
        IN  /\ Len(summary) <= in_limit
            /\ summary = SubSeq(all, 1, n)
            /\ summary_issued = SubSeq(paths_to_scan, 1, BasesNeeded(in_lines, in_limit))

\* With three files of known type in each directory and a limit of five, the
\* limit was reached at the second file of the second directory: its third
\* file was not recorded and the other four directories were never listed.
C13_Witness ==
    /\ lst_pc = "cap_done"
    /\ in_limit = 5
    /\ in_lines = << FileLine(<< "a.jpg", "d.bin", "n.txt" >>), FileLine(<< "v.mp4" >>) >>
    /\ Len(summary) = 5
    /\ summary[5].path = "/sdcard/Pictures/n.txt"
    /\ summary_issued = << "/sdcard/DCIM", "/sdcard/Pictures" >>

(***************************************************************************)
(* What the claims say of directory headers.                               *)
(***************************************************************************)
\* s with "/" before it unless it starts with one.
Slashed(s) == IF s # "" /\ SubSeq(s, 1, 1) = "/" THEN s ELSE "/" \o s

\* s without the whitespace characters at its start.
WithoutLeadingSpace(s) ==
    LET keep == { i \in 1..Len(s) : ~IsSpace(SubSeq(s, i, i)) }
    IN  IF keep = {} THEN ""
        ELSE SubSeq(s, CHOOSE i \in keep : \A j \in keep : i <= j, Len(s))

\* The listing with every header's text replaced by the directory D makes of it.
WithDirs(ls, D(_)) ==
    [i \in 1..Len(ls) |->
        IF ls[i].kind = "dir" THEN DirLine(D(ls[i].text)) ELSE ls[i]]

\* The paths both parsers are to give for the listing read under dirs, a
\* listing whose headers hold the directories they stand for.
PathsUnder(dirs) ==
    /\ file_paths =
          PathsOf(SelectSeq(Tokens(dirs, "/sdcard"),
                            LAMBDA t : InCategory(t.token, in_section)))
    /\ [k \in 1..Len(summary) |-> summary[k].path]
          = PathsOf(SelectSeq(Tokens(dirs, "/sdcard/DCIM"),
                              LAMBDA t : \E c \in DOMAIN ext_map : InCategory(t.token, c)))

\* Every path either parser produced begins with "/".
AllAbsolute ==
    /\ \A k \in 1..Len(file_paths) : SubSeq(file_paths[k], 1, 1) = "/"
    /\ \A k \in 1..Len(summary) : SubSeq(summary[k].path, 1, 1) = "/"

\* C14: a line ending in ":" makes the current directory that line
\* (the line as the parser tests it, its surrounding whitespace gone) without
\* its trailing colon, with "/" before it unless it starts with one; blank
\* lines change nothing; every path produced begins with "/".
C14_HeaderWithoutColon ==
    lst_pc = "done" =>
        /\ PathsUnder(WithDirs(in_lines, LAMBDA d : Slashed(WithoutLeadingSpace(d))))
        /\ AllAbsolute

(***************************************************************************)
(* What the claims say of the Call Logs table.                             *)
(***************************************************************************)
CallCodes == << "1", "2", "3", "4", "5", "6", "7" >>
CallLabels ==
    << "Incoming", "Outgoing", "Missed", "Voicemail", "Rejected", "Blocked",
       "Answered Externally" >>

\* The label the claim gives a row with type field f.
ClaimedLabel(f) ==
    IF f.has /\ \E i \in 1..Len(CallCodes) : CallCodes[i] = f.text
    THEN CallLabels[CHOOSE i \in 1..Len(CallCodes) : CallCodes[i] = f.text]
    ELSE "Unknown"

\* The Type column of the Call Logs table shown last.
ShownTypes ==
    LET t == SelectSeq(tabs, LAMBDA x : x.title = "Call Logs")
    IN  [i \in 1..Len(t[1].rows) |-> t[1].rows[i].type]

\* C15: the Type column shows, for the codes "1".."7", the labels Incoming,
\* Outgoing, Missed, Voicemail, Rejected, Blocked, Answered Externally, and
\* "Unknown" for every other type field: another number, text that is no
\* number, the "N/A" put in place of NULL or of an empty value, and the "0"
\* taken for a row with no type field.
C15_CallTypeTotal ==
    last_op = "show_call_logs:done" =>
        /\ \A f \in CallTypeFields :
              last_view.raw = CallLogOf(f) => ShownTypes = << ClaimedLabel(f) >>
        /\ \A f, g \in CallTypeFields :
              last_view.raw = CallLogOfTwo(f, g)
                  => ShownTypes = << ClaimedLabel(f), ClaimedLabel(g) >>

\* A call answered on another device, then a row whose type is NULL.
C15_Witness ==
    /\ last_op = "show_call_logs:done"
    /\ last_view.raw
         = CallLogOfTwo([has |-> TRUE, text |-> "7"], [has |-> TRUE, text |-> "NULL"])
    /\ ShownTypes = << "Answered Externally", "Unknown" >>

(***************************************************************************)
(* What the claims say of failing device calls, and of the report.         *)
(***************************************************************************)
\* C11: no exception of a device call leaves the handler it was raised in: a
\* click or an export whose device call raised has ended with an error tab
\* or a status message.
C11_NothingEscapes ==
    /\ last_op # "open_or_focus_tab:raised"
    /\ last_op = "show_call_logs:error" => HasTab(tabs, "Call Logs")
    /\ last_op = "Extract:error" => HasTab(tabs, last_extract.section)
    /\ last_op = "export:failed" => status = "Export failed: " \o ErrText

\* The headings the claim gives the report, in order.
ReportHeadings ==
    << "Case Metadata", "File System Analysis", "Communications Analysis",
       "Usage Stats Analysis", "Conclusion" >>

\* The slice of the evidence a section is about, the whole of it for the
\* Conclusion.
SliceOf(evidence, heading) ==
    CASE heading = "Case Metadata"           -> evidence.device_info
      [] heading = "File System Analysis"    -> evidence.files
      [] heading = "Communications Analysis" -> [calls |-> evidence.calls,
                                                 sms |-> evidence.sms]
      [] heading = "Usage Stats Analysis"    -> evidence.usage_stats
      [] OTHER                               -> evidence

\* C17: a saved report has the headings Case Metadata, File System Analysis,
\* Communications Analysis, Usage Stats Analysis and Conclusion in that order;
\* the text under each heading is the reply of a language-model call of its
\* own, made for that section; the calls of the four analysis sections were
\* given their slices of the snapshot; and the file is named after the
\* snapshot's case identifier.
C17_SectionsFromModelCalls ==
    last_op = "report:done" =>
        LET doc == docfiles[last_report.out_fn]
            calls == last_report.calls
        IN  /\ [i \in 1..Len(doc) |-> doc[i].heading] = ReportHeadings
            /\ Len(calls) = Len(doc)
            /\ \A i \in 1..Len(doc) :
                  i <= Len(calls) =>
                      /\ calls[i].section = doc[i].heading
                      /\ doc[i].text = calls[i].reply
                      /\ i <= 4 => calls[i].evidence
                                      = SliceOf(last_report.read, doc[i].heading)
            /\ last_report.out_fn
                 = "Docfiles/report_" \o last_report.read.device_info.case_id \o ".docx"

\* C20: the snapshot a run of generate_report loaded was written by
\* collect_evidence during the connection the report is asked for in.
C20_ReportReadsCurrentSnapshot ==
    last_report.read # << >> => last_report.snapshot_from = "current"

(***************************************************************************)
(* What the claims say of the state a disconnect leaves.                   *)
(***************************************************************************)
\* C21: after disconnect_device the staging directory holds no subdirectory
\* and no file, the sidebar tree has no items, no tab is open, the Connect
\* button is shown and the toolbar is hidden.
C21_DisconnectLeavesNothing ==
    last_op = "disconnect" =>
        /\ DOMAIN temp_dir = {}
        /\ tree = << >>
        /\ tabs = << >>
        /\ connect_button_visible
        /\ ~toolbar_visible

(***************************************************************************)
(* What the claims say of the two parsers side by side.                    *)
(***************************************************************************)
\* The paths p of Extract and q of the file summary are the same path, or
\* the same path below the directories the two start in ("/sdcard" and
\* "/sdcard/DCIM"), which is where a name listed before any header lands.
SamePathFromStart(p, q) ==
    \/ p = q
    \/ /\ Len(p) >= 7 /\ SubSeq(p, 1, 7) = "/sdcard"
       /\ Len(q) >= 12 /\ SubSeq(q, 1, 12) = "/sdcard/DCIM"
       /\ SubSeq(p, 8, Len(p)) = SubSeq(q, 13, Len(q))

\* The paths the file summary recorded with type cat, in order.
SummaryPathsOf(cat) ==
    LET hit == SelectSeq(summary, LAMBDA e : e.type = cat)
    IN  [k \in 1..Len(hit) |-> hit[k].path]

\* C22: the paths the file summary records with the type of a category are
\* the paths Extract selects for that category from the same text, one for
\* one and in the same order, the directory the parser started in aside.
C22_ParsersClassifyAlike ==
    lst_pc = "done" =>
        LET sp == SummaryPathsOf(in_section)
        IN  /\ Len(sp) = Len(file_paths)
            /\ \A k \in 1..Len(sp) :
                  k <= Len(file_paths) => SamePathFromStart(file_paths[k], sp[k])

\* The example listing run for Videos: both parsers give the one video, and
\* the summary holds the two photos besides.
C22_Witness ==
    /\ lst_pc = "done"
    /\ in_lines = ExampleListing
    /\ in_section = Videos
    /\ file_paths = << "/sdcard/DCIM/Camera/vid1.mp4" >>
    /\ SummaryPathsOf(Videos) = file_paths
    /\ Len(summary) = 3

(***************************************************************************)
(* What the claims say of a report that cannot be made, or only in part.   *)
(***************************************************************************)
ReportWarnings == { "report:no_evidence", "report:unreadable", "report:no_llm" }

\* C23: a run of generate_report that finds no evidence.json, cannot read
\* it, or gets no language model ends with a warning: it makes no
\* language-model call, writes no report file, shows no status message and
\* leaves evidence.json as it is.
C23_NoReportWithoutInputs ==
    [][(/\ last_report'.ran
        /\ \/ ~evidence_file.exists
           \/ last_report'.load_raised
           \/ ~last_report'.llm)
       => /\ last_op' \in ReportWarnings
          /\ last_report'.calls = << >>
          /\ docfiles' = docfiles
          /\ status' = status
          /\ evidence_file' = evidence_file]_vars

\* A run that loaded the snapshot and got no language model.
C23_Witness ==
    /\ last_op = "report:no_llm"
    /\ last_report.ran
    /\ last_report.read # << >>
    /\ ~last_report.llm
    /\ evidence_file.exists

\* The sections generate_report asks the language model for, in order.
RequestedSections ==
    << "Case Metadata", "File System Analysis", "Communications Analysis",
       "Usage Stats Analysis" >>

\* C24: in a run of generate_report that got its language model and some of
\* whose calls fail, each of the four sections is requested once, in order;
\* the reply of a failing call is the failure message; and when doc.save
\* does not raise, the report is saved with each section's reply as its text.
C24_FailedCallKeepsReport ==
    (last_report.ran /\ last_report.llm /\ last_report.failed # {}) =>
        LET calls == last_report.calls
        IN  /\ [k \in 1..Len(calls) |-> calls[k].section] = RequestedSections
            /\ \A k \in last_report.failed :
                  k <= Len(calls) => calls[k].reply = "LLM call failed: " \o ErrText
            /\ ~last_report.save_raised =>
                  /\ last_op = "report:done"
                  /\ last_report.out_fn \in DOMAIN docfiles
                  /\ \A k \in 1..Len(calls) :
                        /\ docfiles[last_report.out_fn][k].heading = calls[k].section
                        /\ docfiles[last_report.out_fn][k].text = calls[k].reply

\* The File System call failed and the report was saved with the failure
\* message under that heading and a completion under the next.
C24_Witness ==
    /\ last_op = "report:done"
    /\ last_report.failed = { 2 }
    /\ docfiles[last_report.out_fn][2].text = "LLM call failed: " \o ErrText
    /\ docfiles[last_report.out_fn][3].text = "completion for Communications Analysis"

(***************************************************************************)
(* What the claims say of a click on a category.                           *)
(***************************************************************************)
\* C25: a click on a category node has run Extract for that category.
C25_CategoryClickExtracts ==
    last_view.title \in file_sections =>
        /\ last_op \in { "Extract:done", "Extract:error" }
        /\ last_extract.section = last_view.title

(***************************************************************************)
(* What the claims say of the settings page and the chat sidebar.          *)
(***************************************************************************)
\* C27: the settings page and the preview tabs are never both shown, and
\* the section tree and the preview tabs are shown only in the connected
\* layout, between a connect and the next disconnect.
C27_SettingsOrPreview ==
    /\ ~(settings_visible /\ previewTabs_visible)
    /\ (sidebarTree_visible \/ previewTabs_visible) => toolbar_visible

\* C30: the sidebar shows the chat iff the latest connection test succeeded
\* and the "Agent not configured" card otherwise, and a connect or a
\* disconnect does not change what it shows.
C30_ChatIffTestSucceeded ==
    /\ [](/\ chat_content = "chat" <=> last_test = "ok"
          /\ chat_content = "not_configured" <=> last_test # "ok")
    /\ [][last_op' \in { "connect:no_selection", "connect:failed", "connect:gone",
                         "connect:connected", "disconnect" }
             => chat_content' = chat_content]_vars

\* With no device connected, the settings page was opened from the card of
\* the sidebar and its test has just failed: the card stays.
C30_Witness ==
    /\ last_op = "save_and_test:tested"
    /\ ~toolbar_visible
    /\ last_test = "failed"
    /\ chat_content = "not_configured"
    /\ status = "API Connection Failed"

(***************************************************************************)
(* What the claims say of the previews.                                    *)
(***************************************************************************)
\* The extensions of the category table.
TableExtensions == UNION { ext_map[cat] : cat \in DOMAIN ext_map }

\* C29: a staged file whose name ends with an extension of the category
\* table is previewed by a renderer other than the "Unsupported file type"
\* label, and one whose name ends in .tar.gz by the archive browser.
C29_StagedIsPreviewable ==
    \A i \in 1..Len(tabs) :
        tabs[i].kind = "preview" =>
            /\ (\E ext \in TableExtensions : endswith(lower(tabs[i].title), ext))
                   => tabs[i].widget.render # "unsupported"
            /\ endswith(lower(tabs[i].title), ".tar.gz")
                   => tabs[i].widget.render = "archive"

\* A widget whose timer is not running and whose player is not live.
Released(w) == w.timer # "running" /\ w.player # "live"

\* C26: once a preview tab is closed, by its close button or by disconnect,
\* the timer and the player of its PreviewWidget and of the sub-preview of
\* its archive browser are stopped and released.
C26_ClosedTabsReleased ==
    \A i \in 1..Len(last_closed) :
        /\ Released(last_closed[i])
        /\ \A k \in 1..Len(last_closed[i].sub) : Released(last_closed[i].sub[k])

\* C28: no two open tabs have the same title, whatever opened them.
C28_TitlesDistinct ==
    \A i \in 1..Len(tabs), j \in 1..Len(tabs) :
        i # j => tabs[i].title # tabs[j].title

\* A file named SMS is open in a preview tab, and the click on the SMS view
\* has focused that tab.
C28_Witness ==
    /\ last_op = "focus"
    /\ last_view.title = "SMS"
    /\ \E i \in 1..Len(tabs) : tabs[i].title = "SMS" /\ tabs[i].kind = "preview"
    /\ Len(tabs) = MaxTabs

=============================================================================
